---- MODULE Spec2Model ----
(***************************************************************************)
(* Model of the telegram-finance-bot: the ledger store (users, categories, *)
(* transactions, budgets), the service layer that resolves users and       *)
(* categories and persists entities, the aggregation queries, and the two  *)
(* guided-input conversations (transaction capture, budget capture) as     *)
(* python-telegram-bot dispatches them.                                    *)
(*                                                                         *)
(* Texts are sequences of one-character strings, so that strip, replace,   *)
(* lower and Decimal parsing are computed and not assumed.  Monetary       *)
(* values are exact decimals: a parsed input keeps all its fraction        *)
(* digits, a stored Numeric(15,2) value is a record [w, c] meaning         *)
(* w + c/100 with 0 <= c < 100 (w may be negative).                        *)
(***************************************************************************)
EXTENDS Integers, Sequences, FiniteSets, TLC, Bags

(***************************************************************************)
(* Characters and texts                                                    *)
(***************************************************************************)
Digits == <<"0", "1", "2", "3", "4", "5", "6", "7", "8", "9">>

IsDigit(ch) == \E i \in 1..Len(Digits) : Digits[i] = ch

DigitVal(ch) == (CHOOSE i \in 1..Len(Digits) : Digits[i] = ch) - 1

UpperCase == <<"A", "B", "C", "D", "E", "F", "G", "H", "I", "J", "K", "L", "M",
               "N", "O", "P", "Q", "R", "S", "T", "U", "V", "W", "X", "Y", "Z">>

LowerCase == <<"a", "b", "c", "d", "e", "f", "g", "h", "i", "j", "k", "l", "m",
               "n", "o", "p", "q", "r", "s", "t", "u", "v", "w", "x", "y", "z">>

\* str.lower() on one character
LowerChar(ch) ==
    IF \E i \in 1..Len(UpperCase) : UpperCase[i] = ch
    THEN LowerCase[CHOOSE i \in 1..Len(UpperCase) : UpperCase[i] = ch]
    ELSE ch

\* str.lower()
Lower(s) == [i \in 1..Len(s) |-> LowerChar(s[i])]

\* str.replace(',', '.')
ReplaceComma(s) == [i \in 1..Len(s) |-> IF s[i] = "," THEN "." ELSE s[i]]

IsSpace(ch) == ch = " "

\* str.strip(): drop leading and trailing whitespace
Strip(s) ==
    LET idx == {i \in 1..Len(s) : ~IsSpace(s[i])}
    IN  IF idx = {} THEN <<>>
        ELSE LET lo == CHOOSE i \in idx : \A j \in idx : i <= j
                 hi == CHOOSE i \in idx : \A j \in idx : j <= i
             IN  SubSeq(s, lo, hi)

(***************************************************************************)
(* decimal.Decimal: construction from a string and the comparisons the     *)
(* handlers make.  A parsed value is [valid, special, neg, w, fd]:         *)
(* special is "fin", "inf" or "nan"; w the integer part; fd the fraction   *)
(* digits.  The exponent and underscore forms of the Decimal grammar are   *)
(* not drawn as inputs.                                                    *)
(***************************************************************************)
InvalidDecimal == [valid |-> FALSE, special |-> "fin", neg |-> FALSE, w |-> 0, fd |-> <<>>]

RECURSIVE DigitsValue(_)
DigitsValue(s) ==
    IF s = <<>> THEN 0
    ELSE DigitsValue(SubSeq(s, 1, Len(s) - 1)) * 10 + DigitVal(s[Len(s)])

AllDigits(s) == \A i \in 1..Len(s) : IsDigit(s[i])

\* the unsigned part of a numeric string: digits [. digits] or . digits
ParseUnsigned(s, neg) ==
    LET dots == {i \in 1..Len(s) : s[i] = "."}
    IN  IF Lower(s) \in {<<"i", "n", "f">>, <<"i", "n", "f", "i", "n", "i", "t", "y">>}
        THEN [valid |-> TRUE, special |-> "inf", neg |-> neg, w |-> 0, fd |-> <<>>]
        ELSE IF Lower(s) = <<"n", "a", "n">>
        THEN [valid |-> TRUE, special |-> "nan", neg |-> neg, w |-> 0, fd |-> <<>>]
        ELSE IF dots = {}
        THEN IF s # <<>> /\ AllDigits(s)
             THEN [valid |-> TRUE, special |-> "fin", neg |-> neg,
                   w |-> DigitsValue(s), fd |-> <<>>]
             ELSE InvalidDecimal
        ELSE IF Cardinality(dots) > 1 THEN InvalidDecimal
        ELSE LET p  == CHOOSE i \in dots : TRUE
                 ip == SubSeq(s, 1, p - 1)
                 fp == SubSeq(s, p + 1, Len(s))
             IN  IF AllDigits(ip) /\ AllDigits(fp) /\ (ip # <<>> \/ fp # <<>>)
                 THEN [valid |-> TRUE, special |-> "fin", neg |-> neg,
                       w |-> DigitsValue(ip),
                       fd |-> [i \in 1..Len(fp) |-> DigitVal(fp[i])]]
                 ELSE InvalidDecimal

\* Decimal(text): the constructor strips surrounding whitespace itself and
\* raises InvalidOperation (valid = FALSE) on anything that is not a number
Decimal(text) ==
    LET s == Strip(text)
    IN  IF s = <<>> THEN InvalidDecimal
        ELSE IF s[1] = "-" THEN ParseUnsigned(SubSeq(s, 2, Len(s)), TRUE)
        ELSE IF s[1] = "+" THEN ParseUnsigned(SubSeq(s, 2, Len(s)), FALSE)
        ELSE ParseUnsigned(s, FALSE)

FracDigit(d, i) == IF i <= Len(d.fd) THEN d.fd[i] ELSE 0

DecIsZero(d) == d.special = "fin" /\ d.w = 0 /\ \A i \in 1..Len(d.fd) : d.fd[i] = 0

\* amount <= 0 for a non-NaN Decimal
DecLeZero(d) ==
    IF d.special = "inf" THEN d.neg
    ELSE d.neg \/ DecIsZero(d)

\* whole units of Decimal('999999999.99'), the largest accepted budget amount
MaxAmountWhole == 999999999

\* hundredths of Decimal('999999999.99')
MaxAmountCents == 99

\* amount > Decimal('999999999.99') for a non-NaN Decimal
DecGtMaxAmount(d) ==
    IF d.special = "inf" THEN ~d.neg
    ELSE /\ ~d.neg
         /\ \/ d.w > MaxAmountWhole
            \/ /\ d.w = MaxAmountWhole
               /\ LET c == FracDigit(d, 1) * 10 + FracDigit(d, 2)
                  IN  \/ c > MaxAmountCents
                      \/ /\ c = MaxAmountCents
                         /\ \E i \in 3..Len(d.fd) : d.fd[i] # 0

(***************************************************************************)
(* Numeric(15, 2) column values: [w, c] is w + c/100, 0 <= c < 100         *)
(***************************************************************************)
Num(w, c) == [w |-> w, c |-> c]

NumZero == Num(0, 0)

NumAdd(a, b) ==
    LET cc == a.c + b.c
    IN  IF cc >= 100 THEN Num(a.w + b.w + 1, cc - 100) ELSE Num(a.w + b.w, cc)

NumSub(a, b) ==
    LET cc == a.c - b.c
    IN  IF cc < 0 THEN Num(a.w - b.w - 1, cc + 100) ELSE Num(a.w - b.w, cc)

NumLt(a, b) == a.w < b.w \/ (a.w = b.w /\ a.c < b.c)

NumLe(a, b) == a = b \/ NumLt(a, b)

\* a * k for a small non-negative integer k
NumTimes(a, k) == Num(a.w * k + ((a.c * k) \div 100), (a.c * k) % 100)

\* A Decimal built from whole units and hundredths, as callers of the
\* services pass it
Dec(w, c) == [valid |-> TRUE, special |-> "fin", neg |-> FALSE, w |-> w,
              fd |-> <<c \div 10, c % 10>>]

\* The value a Numeric(15, 2) column keeps for a Decimal: rounded to two
\* places, half away from zero; an infinite or NaN value is refused.
ToNumeric(d) ==
    IF d.special # "fin" THEN [ok |-> FALSE, v |-> NumZero]
    ELSE LET c0  == FracDigit(d, 1) * 10 + FracDigit(d, 2)
             c1  == IF FracDigit(d, 3) >= 5 THEN c0 + 1 ELSE c0
             mag == IF c1 = 100 THEN Num(d.w + 1, 0) ELSE Num(d.w, c1)
         IN  [ok |-> TRUE,
              v  |-> IF d.neg THEN NumSub(NumZero, mag) ELSE mag]

(***************************************************************************)
(* Wall-clock instants.  An instant is a tick count from the first instant *)
(* of January of BaseYear; a month is TicksPerMonth ticks long.            *)
(***************************************************************************)
BaseYear == 2024

TicksPerMonth == 2

\* datetime(year, month, 1)
MonthStart(year, month) == ((year - BaseYear) * 12 + (month - 1)) * TicksPerMonth

YearOf(t) == BaseYear + (t \div (12 * TicksPerMonth))

MonthOf(t) == ((t \div TicksPerMonth) % 12) + 1

(***************************************************************************)
(* The ledger store                                                        *)
(***************************************************************************)
INCOME == "income"

EXPENSE == "expense"

TransactionType == {INCOME, EXPENSE}

NoRow == [id |-> 0]

NoValue == "None"

EmptyDb ==
    [users        |-> {},
     categories   |-> {},
     transactions |-> {},
     budgets      |-> {},
     reports      |-> {},
     seq          |-> [user |-> 0, category |-> 0, transaction |-> 0, budget |-> 0,
                       report |-> 0]]

\* the result of a store call: the store after it, the row it returns, and
\* whether it raised (IntegrityError, DataError)
Done(d, row) == [db |-> d, row |-> row, raised |-> FALSE]

Raised(d) == [db |-> d, row |-> NoRow, raised |-> TRUE]

\* UserQueries.get_user_by_telegram_id
get_user_by_telegram_id_wrong_column(d, telegram_id) ==
    LET m == {u \in d.users : u.id = telegram_id}
    IN  IF m = {} THEN NoRow ELSE CHOOSE u \in m : TRUE

get_user_by_telegram_id(d, telegram_id) ==
    LET m == {u \in d.users : u.telegram_id = telegram_id}
    IN  IF m = {} THEN NoRow ELSE CHOOSE u \in m : TRUE

\* UserQueries.create_user: users.telegram_id is UNIQUE; the sequence value
\* is consumed even when the insert is refused
create_user(d, telegram_id) ==
    LET id  == d.seq.user + 1
        d1  == [d EXCEPT !.seq.user = id]
        row == [id |-> id, telegram_id |-> telegram_id, is_active |-> TRUE]
    IN  IF \E u \in d.users : u.telegram_id = telegram_id
        THEN Raised(d1)
        ELSE Done([d1 EXCEPT !.users = @ \cup {row}], row)

create_category_unique_name(d, name, user_id, transaction_type) ==
    LET id  == d.seq.category + 1
        d1  == [d EXCEPT !.seq.category = id]
        row == [id |-> id, name |-> name, user_id |-> user_id,
                transaction_type |-> transaction_type, is_active |-> TRUE]
    IN  IF \/ ~\E u \in d.users : u.id = user_id
           \/ \E c \in d.categories :
                  /\ c.user_id = user_id
                  /\ c.transaction_type = transaction_type
                  /\ Lower(c.name) = Lower(name)
        THEN Raised(d1)
        ELSE Done([d1 EXCEPT !.categories = @ \cup {row}], row)

\* CategoryQueries.create_category: categories.user_id references users.id
create_category(d, name, user_id, transaction_type) ==
    LET id  == d.seq.category + 1
        d1  == [d EXCEPT !.seq.category = id]
        row == [id |-> id, name |-> name, user_id |-> user_id,
                transaction_type |-> transaction_type, is_active |-> TRUE]
    IN  IF ~\E u \in d.users : u.id = user_id
        THEN Raised(d1)
        ELSE Done([d1 EXCEPT !.categories = @ \cup {row}], row)

get_user_categories_any_user(d, user_id, transaction_type) ==
    {c \in d.categories :
        /\ c.is_active
        /\ (transaction_type # NoValue => c.transaction_type = transaction_type)}

\* CategoryQueries.get_user_categories; transaction_type may be NoValue
get_user_categories(d, user_id, transaction_type) ==
    {c \in d.categories :
        /\ c.user_id = user_id
        /\ c.is_active
        /\ (transaction_type # NoValue => c.transaction_type = transaction_type)}

create_transaction_any_category(d, amount, user_id, category_id, transaction_type, description, transaction_date) ==
    LET id  == d.seq.transaction + 1
        d1  == [d EXCEPT !.seq.transaction = id]
        num == ToNumeric(amount)
        row == [id |-> id, amount |-> num.v, description |-> description,
                transaction_type |-> transaction_type, user_id |-> user_id,
                category_id |-> category_id,
                transaction_date |-> transaction_date]
    IN  IF \/ ~num.ok
           \/ ~\E u \in d.users : u.id = user_id
        THEN Raised(d1)
        ELSE Done([d1 EXCEPT !.transactions = @ \cup {row}], row)

create_transaction_upsert(d, amount, user_id, category_id, transaction_type, description, transaction_date) ==
    LET id  == d.seq.transaction + 1
        d1  == [d EXCEPT !.seq.transaction = id]
        num == ToNumeric(amount)
        row == [id |-> id, amount |-> num.v, description |-> description,
                transaction_type |-> transaction_type, user_id |-> user_id,
                category_id |-> category_id,
                transaction_date |-> transaction_date]
    IN  IF \/ ~num.ok
           \/ ~\E u \in d.users : u.id = user_id
           \/ ~\E c \in d.categories : c.id = category_id
        THEN Raised(d1)
        ELSE Done([d1 EXCEPT !.transactions =
                      {t \in @ : t.user_id # user_id \/ t.category_id # category_id}
                      \cup {row}], row)

\* TransactionQueries.create_transaction
create_transaction(d, amount, user_id, category_id, transaction_type, description, transaction_date) ==
    LET id  == d.seq.transaction + 1
        d1  == [d EXCEPT !.seq.transaction = id]
        num == ToNumeric(amount)
        row == [id |-> id, amount |-> num.v, description |-> description,
                transaction_type |-> transaction_type, user_id |-> user_id,
                category_id |-> category_id,
                transaction_date |-> transaction_date]
    IN  IF \/ ~num.ok
           \/ ~\E u \in d.users : u.id = user_id
           \/ ~\E c \in d.categories : c.id = category_id
        THEN Raised(d1)
        ELSE Done([d1 EXCEPT !.transactions = @ \cup {row}], row)

\* BudgetQueries.create_budget; spent_amount takes the column default 0
BudgetQueries_create_budget(d, name, amount, user_id, category_id, start_date, end_date) ==
    LET id  == d.seq.budget + 1
        d1  == [d EXCEPT !.seq.budget = id]
        num == ToNumeric(amount)
        row == [id |-> id, name |-> name, amount |-> num.v,
                spent_amount |-> NumZero, user_id |-> user_id,
                category_id |-> category_id, start_date |-> start_date,
                end_date |-> end_date, is_active |-> TRUE]
    IN  IF \/ ~num.ok
           \/ ~\E u \in d.users : u.id = user_id
           \/ ~\E c \in d.categories : c.id = category_id
        THEN Raised(d1)
        ELSE Done([d1 EXCEPT !.budgets = @ \cup {row}], row)

\* ReportQueries.create_report: reports.user_id references users.id
create_report(d, user_id, start_date, end_date) ==
    LET id  == d.seq.report + 1
        d1  == [d EXCEPT !.seq.report = id]
        row == [id |-> id, user_id |-> user_id, start_date |-> start_date,
                end_date |-> end_date]
    IN  IF ~\E u \in d.users : u.id = user_id
        THEN Raised(d1)
        ELSE Done([d1 EXCEPT !.reports = @ \cup {row}], row)

\* session.delete(category): the cascade of Category.transactions and
\* Category.budgets deletes the rows of the two collections with it
delete_category(d, category) ==
    [d EXCEPT !.categories   = @ \ {category},
              !.transactions = {t \in @ : t.category_id # category.id},
              !.budgets      = {b \in @ : b.category_id # category.id}]

RECURSIVE DeleteCategories(_, _)
DeleteCategories(d, categories) ==
    IF categories = {} THEN d
    ELSE LET c == CHOOSE x \in categories : TRUE
         IN  DeleteCategories(delete_category(d, c), categories \ {c})

delete_user_keeps_reports(d, user) ==
    LET d1 == DeleteCategories(d, {c \in d.categories : c.user_id = user.id})
    IN  [d1 EXCEPT !.users        = @ \ {user},
                   !.transactions = {t \in @ : t.user_id # user.id},
                   !.budgets      = {b \in @ : b.user_id # user.id}]

\* session.delete(user): the cascade of User.categories (and through each
\* category its transactions and budgets), User.transactions, User.budgets
\* and User.reports deletes the rows of the collections with it
delete_user(d, user) ==
    LET d1 == DeleteCategories(d, {c \in d.categories : c.user_id = user.id})
    IN  [d1 EXCEPT !.users        = @ \ {user},
                   !.transactions = {t \in @ : t.user_id # user.id},
                   !.budgets      = {b \in @ : b.user_id # user.id},
                   !.reports      = {r \in @ : r.user_id # user.id}]

(***************************************************************************)
(* Services: entity resolution and persistence.  Every store call commits  *)
(* on its own; a call that raises ends the service with what was committed *)
(* before it.                                                              *)
(***************************************************************************)
\* the user lookup-or-create that opens add_transaction, create_budget and
\* get_monthly_statistics
GetOrCreateUser(d, telegram_id) ==
    LET user == get_user_by_telegram_id(d, telegram_id)
    IN  IF user = NoRow THEN create_user(d, telegram_id) ELSE Done(d, user)

\* the loop that looks a category up by lower-cased name
MatchCategory_exact_name(categories, category_name) ==
    LET m == {cat \in categories : cat.name = category_name}
    IN  IF m = {} THEN NoRow ELSE CHOOSE cat \in m : TRUE

MatchCategory(categories, category_name) ==
    LET m == {cat \in categories : Lower(cat.name) = Lower(category_name)}
    IN  IF m = {} THEN NoRow ELSE CHOOSE cat \in m : TRUE

GetOrCreateCategory_any_kind(d, user_id, category_name, transaction_type) ==
    LET categories == get_user_categories(d, user_id, NoValue)
        category   == MatchCategory(categories, category_name)
    IN  IF category = NoRow
        THEN create_category(d, category_name, user_id, transaction_type)
        ELSE Done(d, category)

\* the category lookup-or-create of add_transaction and create_budget
GetOrCreateCategory(d, user_id, category_name, transaction_type) ==
    LET categories == get_user_categories(d, user_id, transaction_type)
        category   == MatchCategory(categories, category_name)
    IN  IF category = NoRow
        THEN create_category(d, category_name, user_id, transaction_type)
        ELSE Done(d, category)

\* TransactionService.add_transaction
add_transaction(d, telegram_id, amount, category_name, transaction_type, description, transaction_date) ==
    LET u == GetOrCreateUser(d, telegram_id)
    IN  IF u.raised THEN u
        ELSE LET c == GetOrCreateCategory(u.db, u.row.id, category_name,
                                          transaction_type)
             IN  IF c.raised THEN c
                 ELSE create_transaction(c.db, amount, u.row.id, c.row.id,
                                         transaction_type, description,
                                         transaction_date)

\* BudgetService.create_budget
BudgetService_create_budget(d, telegram_id, name, amount, category_name, start_date, end_date) ==
    LET u == GetOrCreateUser(d, telegram_id)
    IN  IF u.raised THEN u
        ELSE LET c == GetOrCreateCategory(u.db, u.row.id, category_name, EXPENSE)
             IN  IF c.raised THEN c
                 ELSE BudgetQueries_create_budget(c.db, name, amount, u.row.id,
                                                  c.row.id, start_date, end_date)

\* start_command: the store part of /start
start_command(d, telegram_id) ==
    LET existing_user == get_user_by_telegram_id(d, telegram_id)
    IN  IF existing_user = NoRow THEN create_user(d, telegram_id)
        ELSE Done(d, existing_user)

(***************************************************************************)
(* Aggregation queries                                                     *)
(***************************************************************************)
RECURSIVE SumAmounts(_)
\* func.sum(Transaction.amount) over a set of rows (NULL, read as 0, when
\* the set is empty)
SumAmounts(rows) ==
    IF rows = {} THEN NumZero
    ELSE LET r == CHOOSE x \in rows : TRUE
         IN  NumAdd(r.amount, SumAmounts(rows \ {r}))

\* TransactionQueries.get_user_transactions with the optional kind filter;
\* the rows are few enough for LIMIT to keep them all
get_user_transactions(d, user_id, transaction_type) ==
    {t \in d.transactions :
        /\ t.user_id = user_id
        /\ (transaction_type # NoValue => t.transaction_type = transaction_type)}

get_transactions_sum_by_category_any_kind(d, user_id, start_date, end_date, transaction_type) ==
    LET rows == {t \in d.transactions :
                    /\ t.user_id = user_id
                    /\ t.transaction_date >= start_date
                    /\ t.transaction_date <= end_date}
        cats == {c \in d.categories : \E t \in rows : t.category_id = c.id}
    IN  {[category_id       |-> c.id,
          category_name     |-> c.name,
          total_amount      |-> SumAmounts({t \in rows : t.category_id = c.id}),
          transaction_count |-> Cardinality({t \in rows : t.category_id = c.id})]
         : c \in cats}

get_transactions_sum_by_category_all_users(d, user_id, start_date, end_date, transaction_type) ==
    LET rows == {t \in d.transactions :
                    /\ t.transaction_type = transaction_type
                    /\ t.transaction_date >= start_date
                    /\ t.transaction_date <= end_date}
        cats == {c \in d.categories : \E t \in rows : t.category_id = c.id}
    IN  {[category_id       |-> c.id,
          category_name     |-> c.name,
          total_amount      |-> SumAmounts({t \in rows : t.category_id = c.id}),
          transaction_count |-> Cardinality({t \in rows : t.category_id = c.id})]
         : c \in cats}

\* TransactionQueries.get_transactions_sum_by_category: one entry per
\* category of the selected rows.  The ORDER BY total DESC of the result is
\* kept apart, in TopEntries.
get_transactions_sum_by_category(d, user_id, start_date, end_date, transaction_type) ==
    LET rows == {t \in d.transactions :
                    /\ t.user_id = user_id
                    /\ t.transaction_type = transaction_type
                    /\ t.transaction_date >= start_date
                    /\ t.transaction_date <= end_date}
        cats == {c \in d.categories : \E t \in rows : t.category_id = c.id}
    IN  {[category_id       |-> c.id,
          category_name     |-> c.name,
          total_amount      |-> SumAmounts({t \in rows : t.category_id = c.id}),
          transaction_count |-> Cardinality({t \in rows : t.category_id = c.id})]
         : c \in cats}

\* the [:5] slice of the monthly summary
TopLimit == 5

\* entries[:n] of the entries ordered by total, highest first
TopEntries(entries, n) ==
    IF Cardinality(entries) <= n THEN entries
    ELSE CHOOSE top \in SUBSET entries :
            /\ Cardinality(top) = n
            /\ \A a \in top, b \in entries \ top :
                   NumLe(b.total_amount, a.total_amount)

RECURSIVE order_by_asc_total(_)
order_by_asc_total(entries) ==
    IF entries = {} THEN {<<>>}
    ELSE UNION {{<<e>> \o rest : rest \in order_by_asc_total(entries \ {e})} :
                   e \in {x \in entries :
                             \A y \in entries : NumLe(x.total_amount, y.total_amount)}}

RECURSIVE order_by_desc_total(_)
\* .order_by(desc('total_amount')): the lists the statement can return, the
\* entry with the highest total first; entries with equal totals come in
\* any order
order_by_desc_total(entries) ==
    IF entries = {} THEN {<<>>}
    ELSE UNION {{<<e>> \o rest : rest \in order_by_desc_total(entries \ {e})} :
                   e \in {x \in entries :
                             \A y \in entries : NumLe(y.total_amount, x.total_amount)}}

\* list[:limit] for limit >= 0
Slice(list, limit) == SubSeq(list, 1, IF limit < Len(list) THEN limit ELSE Len(list))

\* AnalyticsQueries.get_top_expense_categories: the lists it can return
get_top_expense_categories(d, user_id, start_date, end_date, limit) ==
    {Slice(list, limit) :
        list \in order_by_desc_total(
                    get_transactions_sum_by_category(d, user_id, start_date,
                                                     end_date, EXPENSE))}

BudgetSpentRows_end_exclusive(d, user_id, budget) ==
    {t \in d.transactions :
        /\ t.user_id = user_id
        /\ t.category_id = budget.category_id
        /\ t.transaction_type = EXPENSE
        /\ t.transaction_date >= budget.start_date
        /\ t.transaction_date < budget.end_date}

\* the rows the budget's spent amount sums
BudgetSpentRows(d, user_id, budget) ==
    {t \in d.transactions :
        /\ t.user_id = user_id
        /\ t.category_id = budget.category_id
        /\ t.transaction_type = EXPENSE
        /\ t.transaction_date >= budget.start_date
        /\ t.transaction_date <= budget.end_date}

\* the comparison spent_amount > budget.amount
IsExceeded(spent_amount, amount) == NumLt(amount, spent_amount)

get_active_budgets_with_spending_stored(d, user_id, current_date) ==
    LET active == {b \in d.budgets :
                      /\ b.user_id = user_id
                      /\ b.is_active
                      /\ b.end_date >= current_date
                      /\ \E c \in d.categories : c.id = b.category_id}
    IN  {[budget           |-> b,
          category_name    |-> (CHOOSE c \in d.categories :
                                    c.id = b.category_id).name,
          spent_amount     |-> b.spent_amount,
          remaining_amount |-> NumSub(b.amount, b.spent_amount),
          is_exceeded      |-> IsExceeded(b.spent_amount, b.amount)]
         : b \in active}

\* BudgetQueries.get_active_budgets_with_spending, read at current_date
get_active_budgets_with_spending(d, user_id, current_date) ==
    LET active == {b \in d.budgets :
                      /\ b.user_id = user_id
                      /\ b.is_active
                      /\ b.end_date >= current_date
                      /\ \E c \in d.categories : c.id = b.category_id}
    IN  {LET spent_amount == SumAmounts(BudgetSpentRows(d, user_id, b))
         IN  [budget           |-> b,
              category_name    |-> (CHOOSE c \in d.categories :
                                        c.id = b.category_id).name,
              spent_amount     |-> spent_amount,
              remaining_amount |-> NumSub(b.amount, spent_amount),
              is_exceeded      |-> IsExceeded(spent_amount, b.amount)]
         : b \in active}

\* BudgetService.get_user_budgets
get_user_budgets(d, telegram_id, current_date) ==
    LET user == get_user_by_telegram_id(d, telegram_id)
    IN  IF user = NoRow THEN {}
        ELSE get_active_budgets_with_spending(d, user.id, current_date)

\* the alert threshold, percentage_used >= 80
NearLimitPercent == 80

NearLimit_above_threshold(spent_amount, amount) ==
    IF NumLt(NumZero, amount)
    THEN NumLt(NumTimes(amount, NearLimitPercent), NumTimes(spent_amount, 100))
    ELSE 0 > NearLimitPercent

\* percentage_used >= 80, where percentage_used is
\* spent_amount / budget.amount * 100 if budget.amount > 0 else 0
NearLimit(spent_amount, amount) ==
    IF NumLt(NumZero, amount)
    THEN NumLe(NumTimes(amount, NearLimitPercent), NumTimes(spent_amount, 100))
    ELSE 0 >= NearLimitPercent

\* the alerts one budget adds to the list
AlertsOf(budget_info) ==
    IF budget_info.is_exceeded
    THEN <<[level |-> "exceeded", budget_id |-> budget_info.budget.id]>>
    ELSE IF NearLimit(budget_info.spent_amount, budget_info.budget.amount)
    THEN <<[level |-> "near_limit", budget_id |-> budget_info.budget.id]>>
    ELSE <<>>

RECURSIVE AlertList(_)
AlertList(budgets_data) ==
    IF budgets_data = {} THEN <<>>
    ELSE LET b == CHOOSE x \in budgets_data : TRUE
         IN  AlertsOf(b) \o AlertList(budgets_data \ {b})

\* BudgetService.check_budget_alerts
check_budget_alerts(d, telegram_id, current_date) ==
    AlertList(get_user_budgets(d, telegram_id, current_date))

\* the window end of get_monthly_summary and get_monthly_statistics
NextMonthStart(year, month) ==
    IF month = 12 THEN MonthStart(year + 1, 1) ELSE MonthStart(year, month + 1)

MonthlyTotal_any_kind(d, user_id, transaction_type, start_date, end_date) ==
    SumAmounts({t \in d.transactions :
                   /\ t.user_id = user_id
                   /\ t.transaction_date >= start_date
                   /\ t.transaction_date < end_date})

\* the two totals of get_monthly_summary: start_date <= date < end_date
MonthlyTotal(d, user_id, transaction_type, start_date, end_date) ==
    SumAmounts({t \in d.transactions :
                   /\ t.user_id = user_id
                   /\ t.transaction_type = transaction_type
                   /\ t.transaction_date >= start_date
                   /\ t.transaction_date < end_date})

\* AnalyticsQueries.get_monthly_summary
get_monthly_summary(d, user_id, year, month) ==
    LET start_date     == MonthStart(year, month)
        end_date       == NextMonthStart(year, month)
        total_income   == MonthlyTotal(d, user_id, INCOME, start_date, end_date)
        total_expenses == MonthlyTotal(d, user_id, EXPENSE, start_date, end_date)
        top_categories == get_transactions_sum_by_category(
                              d, user_id, start_date, end_date, EXPENSE)
    IN  [year                   |-> year,
         month                  |-> month,
         total_income           |-> total_income,
         total_expenses         |-> total_expenses,
         balance                |-> NumSub(total_income, total_expenses),
         top_expense_categories |-> TopEntries(top_categories, TopLimit)]

\* TransactionService.get_monthly_statistics: creates the user when absent;
\* stats holds the totals, computed from the per-category sums
get_monthly_statistics(d, telegram_id, year, month) ==
    LET u == GetOrCreateUser(d, telegram_id)
    IN  IF u.raised THEN [db |-> u.db, raised |-> TRUE, row |-> NoRow, stats |-> NoRow]
        ELSE LET start_date == MonthStart(year, month)
                 end_date   == NextMonthStart(year, month)
                 income_by_category ==
                     get_transactions_sum_by_category(
                         u.db, u.row.id, start_date, end_date, INCOME)
                 expense_by_category ==
                     get_transactions_sum_by_category(
                         u.db, u.row.id, start_date, end_date, EXPENSE)
                 total_income  == SumAmounts({[amount |-> e.total_amount, k |-> e.category_id]
                                                 : e \in income_by_category})
                 total_expense == SumAmounts({[amount |-> e.total_amount, k |-> e.category_id]
                                                 : e \in expense_by_category})
             IN  [db |-> u.db, raised |-> FALSE, row |-> u.row,
                  stats |-> [total_income  |-> total_income,
                             total_expense |-> total_expense,
                             balance       |-> NumSub(total_income, total_expense)]]

(***************************************************************************)
(* The chat: updates, per-user data, conversation states                   *)
(***************************************************************************)
\* message texts the chat sends; the reply-keyboard buttons are texts too
BtnAddIncome == <<"+", " ", "A", "d", "d", " ", "i", "n", "c", "o", "m", "e">>

BtnAddExpense == <<"-", " ", "A", "d", "d", " ", "e", "x", "p", "e", "n", "s", "e">>

BtnMyTransactions == <<"M", "y", " ", "t", "r", "a", "n", "s", "a", "c", "t", "i", "o", "n", "s">>

BtnMyBudgets == <<"M", "y", " ", "b", "u", "d", "g", "e", "t", "s">>

BtnReports == <<"R", "e", "p", "o", "r", "t", "s">>

TFood == <<"F", "o", "o", "d">>

TFOOD == <<"F", "O", "O", "D">>

TOther == <<"o", "t", "h", "e", "r">>

\* "1,50": a valid amount in the comma form
T150 == <<"1", ",", "5", "0">>

\* "0": not a positive amount, and a one-character name
T0 == <<"0">>

\* "1000000000.00": one cent above the largest amount
TBig == <<"1", "0", "0", "0", "0", "0", "0", "0", "0", "0", ".", "0", "0">>

\* context.user_data: each key holds {} (absent) or {value}
EmptyUserData ==
    [transaction_type            |-> {},
     amount                      |-> {},
     category_name               |-> {},
     budget_name                 |-> {},
     budget_amount               |-> {},
     budget_category             |-> {},
     waiting_for_custom_category |-> {}]

Has(ud, key) == ud[key] # {}

Get(ud, key) == CHOOSE v \in ud[key] : TRUE

Put(ud, key, value) == [ud EXCEPT ![key] = {value}]

\* ConversationHandler states; END is also the state of a conversation
\* that has not been entered
END == "END"

WAITING_AMOUNT == "WAITING_AMOUNT"

WAITING_CATEGORY == "WAITING_CATEGORY"

WAITING_DESCRIPTION == "WAITING_DESCRIPTION"

BUDGET_NAME == "BUDGET_NAME"

BUDGET_AMOUNT == "BUDGET_AMOUNT"

BUDGET_CATEGORY == "BUDGET_CATEGORY"

BUDGET_PERIOD == "BUDGET_PERIOD"

\* a handler that returns None leaves the conversation state as it is
Stay == "None"

\* updates
TextUpdate(text) == [kind |-> "text", text |-> text, data |-> "", arg |-> <<>>]

CommandUpdate(name) == [kind |-> "command", text |-> <<>>, data |-> name, arg |-> <<>>]

\* a callback query; data is the fixed part of callback_data and arg the
\* category name appended to "category_" or "budget_cat_"
CallbackUpdate(data, arg) == [kind |-> "callback", text |-> <<>>, data |-> data, arg |-> arg]

\* what running a handler gives: the store and user_data after it, the state
\* it returns, whether it sent or edited a message, and whether it raised
Handled(d, ud, next, replied) ==
    [db |-> d, ud |-> ud, next |-> next, replied |-> replied, raised |-> FALSE]

Failed(d, ud) ==
    [db |-> d, ud |-> ud, next |-> Stay, replied |-> FALSE, raised |-> TRUE]

(***************************************************************************)
(* Transaction capture (handlers/transactions.py)                          *)
(***************************************************************************)
add_income_handler(d, ud) ==
    Handled(d, Put(ud, "transaction_type", INCOME), WAITING_AMOUNT, TRUE)

add_expense_handler(d, ud) ==
    Handled(d, Put(ud, "transaction_type", EXPENSE), WAITING_AMOUNT, TRUE)

\* the verdict of amount_handler on a text: InvalidOperation from the
\* constructor or from comparing NaN, the amount <= 0 branch, or accepted
AmountVerdict(text) ==
    LET amount == Decimal(Strip(ReplaceComma(text)))
    IN  IF ~amount.valid \/ amount.special = "nan" THEN "invalid_format"
        ELSE IF DecLeZero(amount) THEN "not_positive"
        ELSE "accepted"

amount_handler_skips_category(d, ud, telegram_id, text) ==
    IF AmountVerdict(text) # "accepted"
    THEN Handled(d, ud, WAITING_AMOUNT, TRUE)
    ELSE Handled(d, Put(ud, "amount", Decimal(Strip(ReplaceComma(text)))),
                 WAITING_DESCRIPTION, TRUE)

\* amount_handler: the categories it lists are read with the telegram id
\* as the store user id; both branches (some, none) prompt for the category
amount_handler(d, ud, telegram_id, text) ==
    LET amount == Decimal(Strip(ReplaceComma(text)))
        ud1    == Put(ud, "amount", amount)
    IN  IF AmountVerdict(text) # "accepted"
        THEN Handled(d, ud, WAITING_AMOUNT, TRUE)
        ELSE IF ~Has(ud1, "transaction_type") THEN Failed(d, ud1)
        ELSE Handled(d, ud1, WAITING_CATEGORY, TRUE)

\* the category names amount_handler offers as buttons
OfferedCategories(d, telegram_id, transaction_type) ==
    {cat.name : cat \in get_user_categories(d, telegram_id, transaction_type)}

category_handler(d, ud, update) ==
    IF update.kind = "callback"
    THEN IF update.arg = TOther
         THEN Handled(d, ud, WAITING_CATEGORY, TRUE)
         ELSE Handled(d, Put(ud, "category_name", update.arg),
                      WAITING_DESCRIPTION, TRUE)
    ELSE Handled(d, Put(ud, "category_name", Strip(update.text)),
                 WAITING_DESCRIPTION, TRUE)

\* the commit shared by description_skip_handler and description_handler:
\* a missing key raises KeyError before the try block; a failure of
\* add_transaction is caught and reported; user_data is cleared either way
CommitTransaction_keeps_data(d, ud, telegram_id, description, current) ==
    IF ~Has(ud, "amount") \/ ~Has(ud, "category_name") \/ ~Has(ud, "transaction_type")
    THEN Failed(d, ud)
    ELSE LET r == add_transaction(d, telegram_id, Get(ud, "amount"),
                                  Get(ud, "category_name"),
                                  Get(ud, "transaction_type"), description, current)
         IN  Handled(r.db, IF r.raised THEN ud ELSE EmptyUserData, END, TRUE)

CommitTransaction_stays(d, ud, telegram_id, description, current) ==
    IF ~Has(ud, "amount") \/ ~Has(ud, "category_name") \/ ~Has(ud, "transaction_type")
    THEN Failed(d, ud)
    ELSE LET r == add_transaction(d, telegram_id, Get(ud, "amount"),
                                  Get(ud, "category_name"),
                                  Get(ud, "transaction_type"), description, current)
         IN  Handled(r.db, ud, WAITING_DESCRIPTION, TRUE)

CommitTransaction(d, ud, telegram_id, description, current) ==
    IF ~Has(ud, "amount") \/ ~Has(ud, "category_name") \/ ~Has(ud, "transaction_type")
    THEN Failed(d, ud)
    ELSE LET r == add_transaction(d, telegram_id, Get(ud, "amount"),
                                  Get(ud, "category_name"),
                                  Get(ud, "transaction_type"), description, current)
         IN  Handled(r.db, EmptyUserData, END, TRUE)

description_skip_handler(d, ud, telegram_id, current) ==
    CommitTransaction(d, ud, telegram_id, {}, current)

SkipWords == {<<"s", "k", "i", "p">>, <<"-">>}

description_handler(d, ud, telegram_id, text, current) ==
    LET description == Strip(text)
    IN  CommitTransaction(d, ud, telegram_id,
                          IF Lower(description) \in SkipWords THEN {} ELSE {description},
                          current)

cancel_handler(d, ud) == Handled(d, EmptyUserData, END, TRUE)

(***************************************************************************)
(* Budget capture (handlers/budgets.py)                                    *)
(***************************************************************************)
start_budget_creation(d, ud) == Handled(d, ud, BUDGET_NAME, TRUE)

MinNameLen == 2

MaxNameLen == 100

budget_name_handler(d, ud, text) ==
    LET budget_name == Strip(text)
    IN  IF Len(budget_name) < MinNameLen THEN Handled(d, ud, BUDGET_NAME, TRUE)
        ELSE IF Len(budget_name) > MaxNameLen THEN Handled(d, ud, BUDGET_NAME, TRUE)
        ELSE Handled(d, Put(ud, "budget_name", budget_name), BUDGET_AMOUNT, TRUE)

\* the verdict of budget_amount_handler on a text
BudgetAmountVerdict(text) ==
    LET amount == Decimal(ReplaceComma(Strip(text)))
    IN  IF ~amount.valid \/ amount.special = "nan" THEN "invalid_format"
        ELSE IF DecLeZero(amount) THEN "not_positive"
        ELSE IF DecGtMaxAmount(amount) THEN "too_large"
        ELSE "accepted"

budget_amount_handler(d, ud, telegram_id, text) ==
    LET amount  == Decimal(ReplaceComma(Strip(text)))
        ud1     == Put(ud, "budget_amount", amount)
        db_user == get_user_by_telegram_id(d, telegram_id)
        expense_categories ==
            {cat.name : cat \in {c \in get_user_categories(d, db_user.id, NoValue) :
                                    c.transaction_type = EXPENSE}}
    IN  IF BudgetAmountVerdict(text) # "accepted"
        THEN Handled(d, ud, BUDGET_AMOUNT, TRUE)
        ELSE IF db_user = NoRow THEN Handled(d, ud1, END, TRUE)
        ELSE IF expense_categories = {} THEN Handled(d, ud1, END, TRUE)
        ELSE Handled(d, ud1, BUDGET_CATEGORY, TRUE)

\* the category names budget_amount_handler offers as buttons
OfferedBudgetCategories(d, telegram_id) ==
    LET db_user == get_user_by_telegram_id(d, telegram_id)
    IN  IF db_user = NoRow THEN {}
        ELSE {cat.name : cat \in get_user_categories(d, db_user.id, EXPENSE)}

\* budget_category_handler: it begins with query.answer() on
\* update.callback_query, which is None for a text message
budget_category_handler(d, ud, update) ==
    IF update.kind # "callback" THEN Failed(d, ud)
    ELSE IF update.arg = TOther
    THEN Handled(d, Put(ud, "waiting_for_custom_category", TRUE),
                 BUDGET_CATEGORY, TRUE)
    ELSE Handled(d, Put(ud, "budget_category", update.arg), BUDGET_PERIOD, TRUE)

\* the period of the "current month" preset: first instant of the month to
\* the last instant of its last day
CurrentMonthPeriod(current) ==
    LET start_date == MonthStart(YearOf(current), MonthOf(current))
        end_date   == IF MonthOf(current) = 12
                      THEN MonthStart(YearOf(current) + 1, 1) - 1
                      ELSE MonthStart(YearOf(current), MonthOf(current) + 1) - 1
    IN  [start_date |-> start_date, end_date |-> end_date]

NextMonthPeriod_same_year(current) ==
    IF MonthOf(current) = 12
    THEN [start_date |-> MonthStart(YearOf(current), 1),
          end_date   |-> MonthStart(YearOf(current), 2) - 1]
    ELSE [start_date |-> MonthStart(YearOf(current), MonthOf(current) + 1),
          end_date   |-> IF MonthOf(current) = 11
                         THEN MonthStart(YearOf(current) + 1, 1) - 1
                         ELSE MonthStart(YearOf(current), MonthOf(current) + 2) - 1]

\* the period of the "next month" preset
NextMonthPeriod(current) ==
    IF MonthOf(current) = 12
    THEN [start_date |-> MonthStart(YearOf(current) + 1, 1),
          end_date   |-> MonthStart(YearOf(current) + 1, 2) - 1]
    ELSE [start_date |-> MonthStart(YearOf(current), MonthOf(current) + 1),
          end_date   |-> IF MonthOf(current) = 11
                         THEN MonthStart(YearOf(current) + 1, 1) - 1
                         ELSE MonthStart(YearOf(current), MonthOf(current) + 2) - 1]

budget_period_handler_custom_commits(d, ud, telegram_id, data, current) ==
    IF data \notin {"period_current_month", "period_next_month", "period_custom"}
    THEN Handled(d, ud, BUDGET_PERIOD, FALSE)
    ELSE LET period == IF data = "period_next_month"
                       THEN NextMonthPeriod(current)
                       ELSE CurrentMonthPeriod(current)
         IN  IF ~Has(ud, "budget_name") \/ ~Has(ud, "budget_amount")
                \/ ~Has(ud, "budget_category")
             THEN Handled(d, EmptyUserData, END, TRUE)
             ELSE LET r == BudgetService_create_budget(
                               d, telegram_id, Get(ud, "budget_name"),
                               Get(ud, "budget_amount"), Get(ud, "budget_category"),
                               period.start_date, period.end_date)
                  IN  Handled(r.db, EmptyUserData, END, TRUE)

\* budget_period_handler: a missing key or a failure of create_budget is
\* caught and reported; user_data is cleared after the attempt
budget_period_handler(d, ud, telegram_id, data, current) ==
    IF data = "period_custom" THEN Handled(d, ud, BUDGET_PERIOD, TRUE)
    ELSE IF data \notin {"period_current_month", "period_next_month"}
    THEN Handled(d, ud, BUDGET_PERIOD, FALSE)
    ELSE LET period == IF data = "period_current_month"
                       THEN CurrentMonthPeriod(current)
                       ELSE NextMonthPeriod(current)
         IN  IF ~Has(ud, "budget_name") \/ ~Has(ud, "budget_amount")
                \/ ~Has(ud, "budget_category")
             THEN Handled(d, EmptyUserData, END, TRUE)
             ELSE LET r == BudgetService_create_budget(
                               d, telegram_id, Get(ud, "budget_name"),
                               Get(ud, "budget_amount"), Get(ud, "budget_category"),
                               period.start_date, period.end_date)
                  IN  Handled(r.db, EmptyUserData, END, TRUE)

cancel_budget_creation(d, ud) == Handled(d, EmptyUserData, END, TRUE)

\* handlers outside the conversations: they answer and change nothing, but
\* /start, which registers the user
Answer(d, ud) == Handled(d, ud, Stay, TRUE)

Ignore(d, ud) == Handled(d, ud, Stay, FALSE)

start_command_handler(d, ud, telegram_id) ==
    Handled(start_command(d, telegram_id).db, ud, Stay, TRUE)

stats_command(d, ud, telegram_id, current) ==
    Handled(get_monthly_statistics(d, telegram_id, YearOf(current),
                                   MonthOf(current)).db, ud, Stay, TRUE)

(***************************************************************************)
(* Dispatch: Application.process_update tries the handlers of group 0 in   *)
(* the order setup_handlers added them and runs the first that accepts the *)
(* update.  A ConversationHandler accepts an update when an entry point    *)
(* (no conversation, or allow_reentry), a handler of the current state, or *)
(* a fallback matches, in that order.                                      *)
(***************************************************************************)
IsText(update) == update.kind = "text"

IsCommand(update) == update.kind = "command"

IsCallback(update, data) == update.kind = "callback" /\ update.data = data

NoHandler == "none"

\* income_conv_handler and expense_conv_handler: entry is the entry button
\* text, fallbackButtons the button texts of the fallback Regex
TransactionConvCheck(state, update, entry, entryHandler, fallbackButtons) ==
    IF state = END
    THEN IF IsText(update) /\ update.text = entry THEN entryHandler ELSE NoHandler
    ELSE IF IsCallback(update, "transaction_cancel") THEN "cancel_handler"
    ELSE IF state = WAITING_AMOUNT /\ IsText(update) THEN "amount_handler"
    ELSE IF state = WAITING_CATEGORY /\ IsText(update) THEN "category_handler"
    ELSE IF state = WAITING_CATEGORY /\ IsCallback(update, "category_")
         THEN "category_handler"
    ELSE IF state = WAITING_DESCRIPTION /\ IsCallback(update, "description_skip")
         THEN "description_skip_handler"
    ELSE IF state = WAITING_DESCRIPTION /\ IsText(update) THEN "description_handler"
    ELSE IF IsCommand(update) THEN "cancel_handler"
    ELSE IF IsText(update) /\ update.text \in fallbackButtons THEN "cancel_handler"
    ELSE NoHandler

IncomeFallbackButtons == {BtnMyBudgets, BtnMyTransactions, BtnReports, BtnAddExpense}

ExpenseFallbackButtons == {BtnMyBudgets, BtnMyTransactions, BtnReports, BtnAddIncome}

BudgetFallbackButtons == {BtnAddIncome, BtnAddExpense, BtnMyTransactions, BtnReports}

BudgetConvCheck_no_reentry(state, update) ==
    IF state = END
    THEN IF IsCallback(update, "budget_create") THEN "start_budget_creation"
         ELSE NoHandler
    ELSE IF IsCallback(update, "budget_cancel") THEN "cancel_budget_creation"
    ELSE IF state = BUDGET_NAME /\ IsText(update) THEN "budget_name_handler"
    ELSE IF state = BUDGET_AMOUNT /\ IsText(update) THEN "budget_amount_handler"
    ELSE IF state = BUDGET_CATEGORY /\ IsCallback(update, "budget_cat_")
         THEN "budget_category_handler"
    ELSE IF state = BUDGET_CATEGORY /\ IsText(update) THEN "budget_category_handler"
    ELSE IF state = BUDGET_PERIOD /\ update.kind = "callback"
            /\ update.data \in {"period_current_month", "period_next_month",
                                "period_custom"}
         THEN "budget_period_handler"
    ELSE IF IsCommand(update) THEN "cancel_budget_creation"
    ELSE IF IsText(update) /\ update.text \in BudgetFallbackButtons
         THEN "cancel_budget_creation"
    ELSE NoHandler

\* budget_conv_handler (allow_reentry=True: the entry point is tried first
\* in every state)
BudgetConvCheck(state, update) ==
    IF IsCallback(update, "budget_create") THEN "start_budget_creation"
    ELSE BudgetConvCheck_no_reentry(state, update)

\* setup_handlers: which handler of group 0 takes the update, and for which
\* conversation ("app" for the handlers outside the conversations)
Route(cv, update) ==
    LET inc == TransactionConvCheck(cv.income, update, BtnAddIncome,
                                    "add_income_handler", IncomeFallbackButtons)
        exp == TransactionConvCheck(cv.expense, update, BtnAddExpense,
                                    "add_expense_handler", ExpenseFallbackButtons)
        bud == BudgetConvCheck(cv.budget, update)
    IN  IF IsText(update) /\ update.text = BtnMyTransactions
        THEN [flow |-> "app", handler |-> "view_transactions_handler"]
        ELSE IF inc # NoHandler THEN [flow |-> "income", handler |-> inc]
        ELSE IF exp # NoHandler THEN [flow |-> "expense", handler |-> exp]
        ELSE IF IsText(update) /\ update.text = BtnMyBudgets
        THEN [flow |-> "app", handler |-> "budgets_menu_handler"]
        ELSE IF bud # NoHandler THEN [flow |-> "budget", handler |-> bud]
        ELSE IF update.kind = "callback" /\ update.data \in {"budget_list", "budget_alerts"}
        THEN [flow |-> "app", handler |-> "handle_budget_callbacks"]
        ELSE IF IsText(update) /\ update.text = BtnReports
        THEN [flow |-> "app", handler |-> "reports_menu_handler"]
        ELSE IF IsCommand(update) /\ update.data = "start"
        THEN [flow |-> "app", handler |-> "start_command"]
        ELSE IF IsCommand(update) /\ update.data = "help"
        THEN [flow |-> "app", handler |-> "help_command"]
        ELSE IF IsCommand(update) /\ update.data = "stats"
        THEN [flow |-> "app", handler |-> "stats_command"]
        ELSE IF IsText(update)
        THEN [flow |-> "app", handler |-> "handle_main_menu"]
        ELSE [flow |-> "app", handler |-> NoHandler]

\* the handler's run on the update
Run(handler, d, ud, telegram_id, update, current) ==
    CASE handler = "add_income_handler" -> add_income_handler(d, ud)
      [] handler = "add_expense_handler" -> add_expense_handler(d, ud)
      [] handler = "amount_handler" -> amount_handler(d, ud, telegram_id, update.text)
      [] handler = "category_handler" -> category_handler(d, ud, update)
      [] handler = "description_skip_handler" ->
             description_skip_handler(d, ud, telegram_id, current)
      [] handler = "description_handler" ->
             description_handler(d, ud, telegram_id, update.text, current)
      [] handler = "cancel_handler" -> cancel_handler(d, ud)
      [] handler = "start_budget_creation" -> start_budget_creation(d, ud)
      [] handler = "budget_name_handler" -> budget_name_handler(d, ud, update.text)
      [] handler = "budget_amount_handler" ->
             budget_amount_handler(d, ud, telegram_id, update.text)
      [] handler = "budget_category_handler" -> budget_category_handler(d, ud, update)
      [] handler = "budget_period_handler" ->
             budget_period_handler(d, ud, telegram_id, update.data, current)
      [] handler = "cancel_budget_creation" -> cancel_budget_creation(d, ud)
      [] handler = "start_command" -> start_command_handler(d, ud, telegram_id)
      [] handler = "stats_command" -> stats_command(d, ud, telegram_id, current)
      [] handler = NoHandler -> Ignore(d, ud)
      [] OTHER -> Answer(d, ud)

(***************************************************************************)
(* State                                                                   *)
(***************************************************************************)
VARIABLES
    db,         \* the ledger store
    now,        \* the wall clock
    conv,       \* the chat's conversation state in each ConversationHandler
    user_data,  \* the chat's context.user_data
    last,       \* the last operation that ran, and how it ended
    calls       \* the service call each session is making, and how far it is

vars == <<db, now, conv, user_data, last, calls>>

\* bounds of the model: rows the chat specification lets the flows persist
MaxTx == 1

MaxBud == 1

\* the chat whose conversations are followed, and another Telegram user
ChatId == CHOOSE n \in {1} : TRUE

PeerId == CHOOSE n \in {2} : TRUE

\* the clock stands at the last instant of December of BaseYear; LastNow is
\* the first instant of the following January
InitNow == MonthStart(BaseYear + 1, 1) - 1

LastNow == MonthStart(BaseYear + 1, 1)

\* last: for a handler, its name, its conversation, the kind of the update,
\* its callback data or command, the text typed or the category of the button pressed, the state returned,
\* whether it raised and whether it answered; for a service call, its name,
\* the telegram id, category name and kind passed, the ids of the user and
\* category rows it resolved (0 when it did not get that far), and whether
\* it raised; for a query, the limit passed and the list returned
NoLast ==
    [op |-> "init", flow |-> "app", kind |-> "none", data |-> "", name |-> <<>>,
     next |-> Stay, raised |-> FALSE, replied |-> FALSE,
     tg |-> 0, ttype |-> NoValue, user_id |-> 0, category_id |-> 0,
     limit |-> 0, rows |-> <<>>]

\* the sessions that call the services at the same time
Sessions == {1, 2}

\* a session's call: the step it is at (and, once it stopped, the step it
\* stopped at), the service and its arguments, the user and category rows it
\* holds, and whether it inserted the category
NoCall ==
    [pc |-> "idle", at |-> "none", op |-> "none", name |-> <<>>, amount |-> NoValue,
     user |-> NoRow, category |-> NoRow, created |-> FALSE]

Init ==
    /\ calls = [s \in Sessions |-> NoCall]
    /\ db = EmptyDb
    /\ now = InitNow
    /\ conv = [income |-> END, expense |-> END, budget |-> END]
    /\ user_data = EmptyUserData
    /\ last = NoLast

WithinBounds(d) ==
    /\ Cardinality(d.transactions) <= MaxTx
    /\ Cardinality(d.budgets) <= MaxBud

\* the update is dispatched and the handler that accepts it runs to its end;
\* an update that no handler accepts changes nothing
Deliver(update) ==
    \E rt \in {Route(conv, update)} :
      /\ rt.handler # NoHandler
      /\ \E r \in {Run(rt.handler, db, user_data, ChatId, update, now)} :
           /\ WithinBounds(r.db)
           /\ db' = r.db
           /\ user_data' = r.ud
           /\ conv' = IF rt.flow # "app" /\ ~r.raised /\ r.next # Stay
                      THEN [conv EXCEPT ![rt.flow] = r.next]
                      ELSE conv
           /\ last' = [NoLast EXCEPT !.op = rt.handler, !.flow = rt.flow,
                                     !.kind = update.kind,
                                     !.data = update.data,
                                     !.name = IF IsText(update) THEN update.text
                                              ELSE update.arg,
                                     !.next = r.next, !.raised = r.raised,
                                     !.replied = r.replied, !.tg = ChatId]
           /\ UNCHANGED <<now, calls>>

(***************************************************************************)
(* The chat specification: updates of one chat, delivered one at a time    *)
(***************************************************************************)
Texts == {T150, T0, TFood, BtnAddIncome, BtnAddExpense}

\* what the chat types at each step: an amount or "0" at the amount steps,
\* a name or "0" at the budget name step, a name where a category or a
\* description is asked for; outside the steps, every text of Texts
Typed(handler) ==
    CASE handler \in {"amount_handler", "budget_amount_handler"} -> {T150, T0}
      [] handler = "budget_name_handler" -> {TFood, T0}
      [] handler \in {"category_handler", "description_handler",
                      "budget_category_handler"} -> {TFood}
      [] OTHER -> Texts

Commands == {"start"}

\* callback data of buttons that carry no category name; messages with
\* these buttons stay in the chat, so they can be pressed at any time
StaticButtons ==
    {"transaction_cancel", "description_skip", "budget_create", "budget_cancel",
     "period_current_month"}

\* category buttons the chat can have been shown
CategoryButtons(d) ==
    {CallbackUpdate("category_", TOther), CallbackUpdate("budget_cat_", TOther)}
    \cup {CallbackUpdate("category_", n) :
             n \in OfferedCategories(d, ChatId, NoValue)}
    \cup {CallbackUpdate("budget_cat_", n) : n \in OfferedBudgetCategories(d, ChatId)}

SendText ==
    \E t \in Texts :
        /\ t \in Typed(Route(conv, TextUpdate(t)).handler)
        /\ Deliver(TextUpdate(t))

SendCommand == \E c \in Commands : Deliver(CommandUpdate(c))

PressButton ==
    \/ \E b \in StaticButtons : Deliver(CallbackUpdate(b, <<>>))
    \/ \E u \in CategoryButtons(db) : Deliver(u)

\* another Telegram user sends its first /start
PeerStart ==
    /\ get_user_by_telegram_id(db, PeerId) = NoRow
    /\ db' = start_command(db, PeerId).db
    /\ last' = [NoLast EXCEPT !.op = "start_command", !.kind = "command",
                              !.tg = PeerId]
    /\ UNCHANGED <<now, conv, user_data, calls>>

Next == SendText \/ SendCommand \/ PressButton \/ PeerStart

Spec == Init /\ [][Next]_vars

(***************************************************************************)
(* The amount specification: the chat opens the flows, types a budget name *)
(* and types amounts of every shape at the amount steps                    *)
(***************************************************************************)
\* "-5"
TNeg == <<"-", "5">>

\* "999999999.99": the largest amount
TMax == <<"9", "9", "9", "9", "9", "9", "9", "9", "9", ".", "9", "9">>

\* "Infinity"
TInf == <<"I", "n", "f", "i", "n", "i", "t", "y">>

AmountTexts == {T150, T0, TNeg, TFood, TMax, TBig, TInf}

AmountHandlers == {"amount_handler", "budget_amount_handler"}

\* the entry points of the three conversations
EntryHandlers == {"add_income_handler", "add_expense_handler", "start_budget_creation"}

OpenFlow ==
    \E u \in {TextUpdate(BtnAddIncome), TextUpdate(BtnAddExpense),
              CallbackUpdate("budget_create", <<>>)} :
        /\ Route(conv, u).handler \in EntryHandlers
        /\ Deliver(u)

TypeName ==
    \E t \in {TFood, T0} :
        /\ Route(conv, TextUpdate(t)).handler = "budget_name_handler"
        /\ Deliver(TextUpdate(t))

TypeAmount ==
    \E t \in AmountTexts :
        /\ Route(conv, TextUpdate(t)).handler \in AmountHandlers
        /\ Deliver(TextUpdate(t))

PressCancel ==
    \E b \in {"transaction_cancel", "budget_cancel"} : Deliver(CallbackUpdate(b, <<>>))

AmountNext == OpenFlow \/ TypeName \/ TypeAmount \/ PressCancel

AmountSpec == Init /\ [][AmountNext]_vars

(***************************************************************************)
(* The service specification: the services called one after another, as    *)
(* the handlers and the tests call them                                    *)
(***************************************************************************)
\* rows the service specification lets the calls persist
SvcMaxRows == 3

TelegramIds == {ChatId, PeerId}

\* category names and kinds the chat's user passes to add_transaction
SvcCategories ==
    {[name |-> TFood, ttype |-> EXPENSE], [name |-> TFOOD, ttype |-> EXPENSE],
     [name |-> TFood, ttype |-> INCOME]}

\* amounts and dates passed to add_transaction: 0.20 and 0.30 at the last
\* instant of December, 0.30 at the first instant of January
SvcEntries ==
    {[amount |-> Dec(0, 20), date |-> InitNow],
     [amount |-> Dec(0, 30), date |-> InitNow],
     [amount |-> Dec(0, 30), date |-> LastNow]}

\* the add_transaction calls: every category and entry for the chat's user,
\* one expense for the other user
SvcTransactions ==
    {[tg |-> ChatId, name |-> c.name, ttype |-> c.ttype, amount |-> e.amount,
      date |-> e.date] : c \in SvcCategories, e \in SvcEntries}
    \cup {[tg |-> PeerId, name |-> TFood, ttype |-> EXPENSE,
           amount |-> Dec(0, 30), date |-> InitNow]}

\* the create_budget calls: limits 0.00 and 0.50 on either spelling of the
\* category for the chat's user, one budget for the other user
SvcBudgets ==
    {[tg |-> ChatId, name |-> n, limit |-> l] :
        n \in {TFood, TFOOD}, l \in {Dec(0, 0), Dec(0, 50)}}
    \cup {[tg |-> PeerId, name |-> TFood, limit |-> Dec(0, 50)]}

SvcBudgetName == <<"B", "u", "d", "g", "e", "t">>

\* the months read, and the dates the budget status is read at
SvcDates == {InitNow, LastNow}

\* what a service call leaves in last: the rows its lookups resolved
Resolved(op, d, telegram_id, category_name, transaction_type, raised) ==
    LET u == GetOrCreateUser(d, telegram_id)
        c == IF u.raised \/ transaction_type = NoValue THEN Raised(d)
             ELSE GetOrCreateCategory(u.db, u.row.id, category_name, transaction_type)
    IN  [NoLast EXCEPT !.op = op, !.tg = telegram_id, !.name = category_name,
                       !.ttype = transaction_type, !.raised = raised,
                       !.user_id = u.row.id, !.category_id = c.row.id]

SvcWithinBounds(d) ==
    Cardinality(d.transactions) + Cardinality(d.budgets) <= SvcMaxRows

SvcStartCommand ==
    \E tg \in TelegramIds :
      \E r \in {start_command(db, tg)} :
        /\ db' = r.db
        /\ last' = [NoLast EXCEPT !.op = "start_command", !.tg = tg,
                                  !.raised = r.raised, !.user_id = r.row.id]
        /\ UNCHANGED <<now, conv, user_data, calls>>

SvcAddTransaction ==
    \E c \in SvcTransactions :
      \E r \in {add_transaction(db, c.tg, c.amount, c.name, c.ttype, {}, c.date)} :
        /\ SvcWithinBounds(r.db)
        /\ db' = r.db
        /\ last' = Resolved("add_transaction", db, c.tg, c.name, c.ttype, r.raised)
        /\ UNCHANGED <<now, conv, user_data, calls>>

SvcCreateBudget ==
    \E c \in SvcBudgets :
      \E r \in {BudgetService_create_budget(
                    db, c.tg, SvcBudgetName, c.limit, c.name,
                    CurrentMonthPeriod(InitNow).start_date,
                    CurrentMonthPeriod(InitNow).end_date)} :
        /\ SvcWithinBounds(r.db)
        /\ db' = r.db
        /\ last' = Resolved("create_budget", db, c.tg, c.name, EXPENSE, r.raised)
        /\ UNCHANGED <<now, conv, user_data, calls>>

SvcGetMonthlyStatistics ==
    \E tg \in TelegramIds :
      \E r \in {get_monthly_statistics(db, tg, YearOf(now), MonthOf(now))} :
        /\ db' = r.db
        /\ last' = [NoLast EXCEPT !.op = "get_monthly_statistics", !.tg = tg,
                                  !.raised = r.raised, !.user_id = r.row.id]
        /\ UNCHANGED <<now, conv, user_data, calls>>

SvcNext ==
    SvcStartCommand \/ SvcAddTransaction \/ SvcCreateBudget \/ SvcGetMonthlyStatistics

SvcSpec == Init /\ [][SvcNext]_vars

(***************************************************************************)
(* Properties of the services (SvcSpec)                                    *)
(***************************************************************************)
\* a Numeric value in hundredths, and back
Cents(n) == n.w * 100 + n.c

FromCents(x) == Num(x \div 100, x % 100)

RECURSIVE CentsSum(_)
CentsSum(rows) ==
    IF rows = {} THEN 0
    ELSE LET r == CHOOSE x \in rows : TRUE
         IN  Cents(r.amount) + CentsSum(rows \ {r})

\* C1: after every call of start_command, add_transaction, create_budget or
\* get_monthly_statistics no two User rows share a telegram id, and a call
\* for a telegram id that already has a row resolves to that row and leaves
\* the users table as it was.
C1_OneUserPerTelegramId ==
    [][ /\ \A u1, u2 \in db'.users : u1.telegram_id = u2.telegram_id => u1 = u2
        /\ \A u \in db.users :
              last'.tg = u.telegram_id
                  => /\ db'.users = db.users
                     /\ last'.user_id = u.id ]_vars

\* a budget was created for a user whose row an earlier add_transaction
\* call had inserted, and both telegram ids have their row
C1_ExistingUserResolved ==
    /\ last.op = "create_budget"
    /\ \E t \in db.transactions : t.user_id = last.user_id
    /\ \E b \in db.budgets : b.user_id = last.user_id
    /\ Cardinality(db.users) = Cardinality(TelegramIds)

\* C2: after every add_transaction / create_budget call no two Category
\* rows of one user and kind have names equal ignoring case; a call whose
\* name matches a row ignoring case resolves to that row and inserts no
\* category, and a call whose name matches none inserts exactly one row,
\* with the name as given.
C2_CategoryResolvedOnce ==
    [][ /\ \A c1, c2 \in db'.categories :
              (/\ c1.user_id = c2.user_id
               /\ c1.transaction_type = c2.transaction_type
               /\ Lower(c1.name) = Lower(c2.name)) => c1 = c2
        /\ (last'.op \in {"add_transaction", "create_budget"} /\ last'.user_id # 0)
              => LET same == {c \in db.categories :
                                 /\ c.user_id = last'.user_id
                                 /\ c.transaction_type = last'.ttype
                                 /\ Lower(c.name) = Lower(last'.name)}
                 IN  IF same # {}
                     THEN /\ db'.categories = db.categories
                          /\ \E c \in same : c.id = last'.category_id
                     ELSE \E c \in db'.categories \ db.categories :
                             /\ db'.categories = db.categories \cup {c}
                             /\ c.id = last'.category_id
                             /\ c.name = last'.name
                             /\ c.transaction_type = last'.ttype
                             /\ c.user_id = last'.user_id ]_vars

\* a call that passed "FOOD" resolved to the row created as "Food", and the
\* user has that name in both kinds
C2_ReusedIgnoringCase ==
    /\ last.op \in {"add_transaction", "create_budget"}
    /\ last.name = TFOOD
    /\ \E c \in db.categories : c.id = last.category_id /\ c.name = TFood
    /\ \E c \in db.categories :
          c.user_id = last.user_id /\ c.transaction_type = INCOME /\ c.name = TFood

\* the owner's EXPENSE transactions in the budget's category dated within
\* [start_date, end_date]
C8_Expected(b) ==
    {t \in db.transactions :
        /\ t.user_id = b.user_id
        /\ t.category_id = b.category_id
        /\ t.transaction_type = EXPENSE
        /\ b.start_date <= t.transaction_date
        /\ t.transaction_date <= b.end_date}

\* C8: for every budget get_active_budgets_with_spending returns,
\* spent_amount is the sum of the owner's EXPENSE transactions in the
\* budget's category dated within [start_date, end_date], remaining_amount
\* is amount - spent_amount, and is_exceeded holds exactly when
\* spent_amount > amount.
C8_BudgetStatus ==
    \A tg \in TelegramIds, t \in SvcDates :
      \A info \in get_user_budgets(db, tg, t) :
        LET spent == CentsSum(C8_Expected(info.budget))
            limit == Cents(info.budget.amount)
        IN  /\ info.spent_amount = FromCents(spent)
            /\ info.remaining_amount = FromCents(limit - spent)
            /\ info.is_exceeded = (spent > limit)

\* a budget whose spending, two transactions dated its last instant, equals
\* its limit and is reported as not exceeded, while a transaction of the
\* same category lies after the window
C8_SpentEqualsLimit ==
    \E info \in get_user_budgets(db, ChatId, InitNow) :
        /\ Cardinality(C8_Expected(info.budget)) > 1
        /\ Cents(info.budget.amount) > 0
        /\ info.spent_amount = info.budget.amount
        /\ info.remaining_amount = NumZero
        /\ ~info.is_exceeded

\* C9: for each budget of the user's status list check_budget_alerts holds
\* exactly one alert, "exceeded", when spent > limit; otherwise exactly one,
\* "near limit", when the limit is positive and spent / limit >= 0.80;
\* otherwise none (a limit of 0 with nothing spent gives none); and it
\* holds no alert for any other budget.
C9_Alerts ==
    \A tg \in TelegramIds, t \in SvcDates :
      LET infos  == get_user_budgets(db, tg, t)
          alerts == check_budget_alerts(db, tg, t)
      IN  /\ \A i \in 1..Len(alerts) :
                \E info \in infos : info.budget.id = alerts[i].budget_id
          /\ \A info \in infos :
                LET mine  == {i \in 1..Len(alerts) :
                                 alerts[i].budget_id = info.budget.id}
                    spent == Cents(info.spent_amount)
                    limit == Cents(info.budget.amount)
                IN  IF spent > limit
                    THEN /\ Cardinality(mine) = 1
                         /\ \A i \in mine : alerts[i].level = "exceeded"
                    ELSE IF limit > 0 /\ spent * 100 >= limit * NearLimitPercent
                    THEN /\ Cardinality(mine) = 1
                         /\ \A i \in mine : alerts[i].level = "near_limit"
                    ELSE mine = {}

\* a budget spent to exactly 80 % of its limit, alerted as near the limit
C9_AtThreshold ==
    \E info \in get_user_budgets(db, ChatId, InitNow) :
        /\ Cents(info.spent_amount) * 100 = Cents(info.budget.amount) * NearLimitPercent
        /\ Cents(info.budget.amount) > 0
        /\ check_budget_alerts(db, ChatId, InitNow) =
               <<[level |-> "near_limit", budget_id |-> info.budget.id]>>

\* C10: get_monthly_summary(user, year, month) counts, in its totals and in
\* its top expense categories, exactly the transactions dated from the
\* first instant of the month up to, and not including, the first instant
\* of the next month.
C10_MonthWindow ==
    \A tg \in TelegramIds, t \in SvcDates :
      LET user == get_user_by_telegram_id(db, tg)
          s    == get_monthly_summary(db, user.id, YearOf(t), MonthOf(t))
          rows(ttype) ==
              {x \in db.transactions :
                  /\ x.user_id = user.id
                  /\ x.transaction_type = ttype
                  /\ MonthStart(YearOf(t), MonthOf(t)) <= x.transaction_date
                  /\ x.transaction_date < NextMonthStart(YearOf(t), MonthOf(t))}
      IN  user # NoRow =>
            /\ s.total_income = FromCents(CentsSum(rows(INCOME)))
            /\ s.total_expenses = FromCents(CentsSum(rows(EXPENSE)))
            /\ \A e \in s.top_expense_categories :
                  LET of == {x \in rows(EXPENSE) : x.category_id = e.category_id}
                  IN  /\ of # {}
                      /\ e.total_amount = FromCents(CentsSum(of))
                      /\ e.transaction_count = Cardinality(of)

(***************************************************************************)
(* Properties of the conversations (Spec, AmountSpec)                      *)
(***************************************************************************)
TransactionFlows == {"income", "expense"}

TransactionSteps == {WAITING_AMOUNT, WAITING_CATEGORY, WAITING_DESCRIPTION}

BudgetSteps == {BUDGET_NAME, BUDGET_AMOUNT, BUDGET_CATEGORY, BUDGET_PERIOD}

\* entry, one step forward, or the end of the flow
TransactionMoves ==
    {<<END, WAITING_AMOUNT>>, <<WAITING_AMOUNT, WAITING_CATEGORY>>,
     <<WAITING_CATEGORY, WAITING_DESCRIPTION>>}
    \cup {<<s, END>> : s \in TransactionSteps}

BudgetMoves ==
    {<<END, BUDGET_NAME>>, <<BUDGET_NAME, BUDGET_AMOUNT>>,
     <<BUDGET_AMOUNT, BUDGET_CATEGORY>>, <<BUDGET_CATEGORY, BUDGET_PERIOD>>}
    \cup {<<s, END>> : s \in BudgetSteps}

\* the entry event of the budget flow taken in a later step
BudgetRestarts == {<<s, BUDGET_NAME>> : s \in BudgetSteps \ {BUDGET_NAME}}

\* a Transaction is persisted only by the description step (text or skip)
\* of a conversation that ends with it, from an amount, a category and a
\* kind that were collected; a Budget only by the period step, from a name,
\* an amount and a category that were collected
PersistedAtLastStep ==
    /\ db'.transactions # db.transactions
          => /\ last'.op \in {"description_handler", "description_skip_handler"}
             /\ last'.flow \in TransactionFlows
             /\ conv[last'.flow] = WAITING_DESCRIPTION
             /\ conv'[last'.flow] = END
             /\ Has(user_data, "amount") /\ Has(user_data, "category_name")
             /\ Has(user_data, "transaction_type")
             /\ \E t \in db'.transactions \ db.transactions :
                   /\ db'.transactions = db.transactions \cup {t}
                   /\ t.amount = ToNumeric(Get(user_data, "amount")).v
                   /\ \E c \in db'.categories :
                         /\ c.id = t.category_id
                         /\ Lower(c.name) = Lower(Get(user_data, "category_name"))
    /\ db'.budgets # db.budgets
          => /\ last'.op = "budget_period_handler"
             /\ conv.budget = BUDGET_PERIOD
             /\ conv'.budget = END
             /\ Has(user_data, "budget_name") /\ Has(user_data, "budget_amount")
             /\ Has(user_data, "budget_category")
             /\ \E b \in db'.budgets \ db.budgets :
                   /\ db'.budgets = db.budgets \cup {b}
                   /\ b.name = Get(user_data, "budget_name")
                   /\ b.amount = ToNumeric(Get(user_data, "budget_amount")).v
                   /\ \E c \in db'.categories :
                         /\ c.id = b.category_id
                         /\ Lower(c.name) = Lower(Get(user_data, "budget_category"))

\* C3: a Transaction is persisted only when amount, category and
\* description have succeeded in that order and a Budget only when name,
\* amount, category and period have; every conversation moves by entry, by
\* one step forward or to its end, except that the entry event of the
\* budget flow, taken in a later step, puts the budget flow back at the
\* name step.
C3_StepOrder ==
    [][ /\ PersistedAtLastStep
        /\ \A f \in TransactionFlows :
              conv'[f] # conv[f] => <<conv[f], conv'[f]>> \in TransactionMoves
        /\ conv'.budget # conv.budget
              => <<conv.budget, conv'.budget>> \in BudgetMoves \cup BudgetRestarts
      ]_vars

\* a transaction and then a budget have been persisted by their flows
C3_BothPersisted ==
    /\ last.op = "budget_period_handler"
    /\ conv.budget = END
    /\ db.transactions # {}
    /\ db.budgets # {}

\* C3 as stated: no step that succeeded is revisited before the flow ends
C3_NeverRevisited ==
    [][ /\ PersistedAtLastStep
        /\ \A f \in TransactionFlows :
              conv'[f] # conv[f] => <<conv[f], conv'[f]>> \in TransactionMoves
        /\ conv'.budget # conv.budget => <<conv.budget, conv'.budget>> \in BudgetMoves
      ]_vars

\* C4: when the cancel event of a flow is handled, no conversation of that
\* flow is left in a non-terminal step, no entity is persisted and every
\* collected value is discarded; an entry into the flow right after it
\* starts with no collected value.
C4_CancelEndsFlow ==
    [][ /\ (last'.op = "cancel_handler" /\ last'.kind = "callback")
              => /\ \A f \in TransactionFlows : conv'[f] = END
                 /\ user_data' = EmptyUserData
                 /\ db' = db
        /\ (last'.op = "cancel_budget_creation" /\ last'.kind = "callback")
              => /\ conv'.budget = END
                 /\ user_data' = EmptyUserData
                 /\ db' = db
        /\ (/\ last.op \in {"cancel_handler", "cancel_budget_creation"}
            /\ last'.op \in {"add_income_handler", "add_expense_handler",
                             "start_budget_creation"})
              => \A k \in DOMAIN user_data' :
                    k # "transaction_type" => user_data'[k] = {}
      ]_vars

\* C5: in the category step of either flow, "other" keeps the step, and the
\* free text that follows is stored as the category name while the flow
\* moves on to the description step, respectively the period step.
C5_OtherThenText ==
    [][ /\ (/\ last'.op \in {"category_handler", "budget_category_handler"}
            /\ last'.kind = "callback" /\ last'.name = TOther)
              => conv'[last'.flow] = conv[last'.flow]
        /\ (last'.op = "category_handler" /\ last'.kind = "text")
              => /\ conv'[last'.flow] = WAITING_DESCRIPTION
                 /\ user_data'.category_name = {last'.name}
        /\ (/\ last'.op = "budget_category_handler" /\ last'.kind = "text"
            /\ Has(user_data, "waiting_for_custom_category"))
              => /\ conv'.budget = BUDGET_PERIOD
                 /\ user_data'.budget_category = {last'.name}
      ]_vars

\* the amount rule: after the comma is replaced, a decimal v with
\* 0 < v <= 999,999,999.99
InRange(text) ==
    LET v == Decimal(ReplaceComma(text))
    IN  /\ v.valid
        /\ v.special = "fin"
        /\ ~DecLeZero(v)
        /\ ~DecGtMaxAmount(v)

\* the amount step took the input: it did not return its own step
Accepted(l) == l.raised \/ l.next \notin {WAITING_AMOUNT, BUDGET_AMOUNT}

\* C6: amount_handler and budget_amount_handler accept an input exactly
\* when it satisfies the amount rule.
C6_AcceptsExactlyInRange ==
    [][ last'.op \in AmountHandlers => (Accepted(last') <=> InRange(last'.name)) ]_vars

\* C7: an input that fails the validation of its step (the amount rule, the
\* 2..100 characters of a budget name) leaves every conversation in its
\* step, stores nothing and changes no collected value.
C7_FailedInputChangesNothing ==
    [][ (\/ last'.op \in AmountHandlers /\ ~InRange(last'.name)
         \/ /\ last'.op = "budget_name_handler"
            /\ \/ Len(Strip(last'.name)) < MinNameLen
               \/ Len(Strip(last'.name)) > MaxNameLen)
          => /\ conv' = conv
             /\ user_data' = user_data
             /\ db' = db ]_vars

(***************************************************************************)
(* The step specification: the chat walks the expense flow and the budget  *)
(* flow, typing names and amounts of every shape where a step asks for     *)
(* them and pressing every button the steps show                           *)
(***************************************************************************)
\* a name one character longer than the longest name
TLong == [i \in 1..(MaxNameLen + 1) |-> "a"]

\* " F ": three characters, one after trimming
TPadded == <<" ", "F", " ">>

\* failed inserts the step specification lets the store refuse
MaxRefused == 1

\* what the chat types at each step
StepTyped(handler) ==
    CASE handler = "add_expense_handler" -> {BtnAddExpense}
      [] handler = "amount_handler" -> {T150, TInf}
      [] handler = "budget_amount_handler" -> {T150}
      [] handler = "budget_name_handler" -> {TFood, T0, TPadded, TLong}
      [] handler = "category_handler" -> {TFood, T0}
      [] handler = "description_handler" -> {TFood}
      [] handler = "budget_category_handler" -> {TFood}
      [] OTHER -> {}

StepTexts == {BtnAddExpense, T150, TInf, TFood, T0, TPadded, TLong}

StepButtons ==
    {"transaction_cancel", "description_skip", "budget_create", "budget_cancel",
     "period_current_month", "period_next_month", "period_custom"}

\* rows and refused inserts the step specification allows
StepWithinBounds(d) ==
    /\ d.seq.transaction <= MaxTx + MaxRefused
    /\ d.seq.budget <= MaxBud + MaxRefused
    /\ Cardinality(d.categories) <= MaxTx + MaxRefused

StepType ==
    \E t \in StepTexts :
        /\ t \in StepTyped(Route(conv, TextUpdate(t)).handler)
        /\ Deliver(TextUpdate(t))
        /\ StepWithinBounds(db')

StepPress ==
    /\ \/ \E b \in StepButtons : Deliver(CallbackUpdate(b, <<>>))
       \/ \E u \in CategoryButtons(db) : Deliver(u)
    /\ StepWithinBounds(db')

StepNext == StepType \/ StepPress

StepSpec == Init /\ [][StepNext]_vars

(***************************************************************************)
(* C11: a commit whose persistence fails                                   *)
(***************************************************************************)
TransactionCommits == {"description_handler", "description_skip_handler"}

PeriodPresets == {"period_current_month", "period_next_month"}

\* the commit of the transaction flow reaches add_transaction, which raises
TransactionPersistFails ==
    /\ Has(user_data, "amount")
    /\ Has(user_data, "category_name")
    /\ Has(user_data, "transaction_type")
    /\ add_transaction(db, ChatId, Get(user_data, "amount"),
                       Get(user_data, "category_name"),
                       Get(user_data, "transaction_type"), {}, now).raised

\* the commit of the budget flow raises inside its try block: a collected
\* value is missing, or create_budget raises
BudgetPersistFails ==
    \/ ~Has(user_data, "budget_name")
    \/ ~Has(user_data, "budget_amount")
    \/ ~Has(user_data, "budget_category")
    \/ BudgetService_create_budget(db, ChatId, Get(user_data, "budget_name"),
                                   Get(user_data, "budget_amount"),
                                   Get(user_data, "budget_category"),
                                   now, now).raised

\* C11: when the commit step of the transaction flow or of the budget flow
\* fails to persist its entity, the handler answers with the failure, the
\* flow ends instead of staying in the commit step, no entity is persisted
\* and every collected value is discarded.
C11_FailedCommitEndsFlow ==
    [][ /\ (last'.op \in TransactionCommits /\ TransactionPersistFails)
            => /\ last'.replied /\ ~last'.raised
               /\ conv'[last'.flow] = END
               /\ user_data' = EmptyUserData
               /\ db'.transactions = db.transactions
        /\ (last'.op = "budget_period_handler" /\ last'.data \in PeriodPresets
              /\ BudgetPersistFails)
            => /\ last'.replied /\ ~last'.raised
               /\ conv'.budget = END
               /\ user_data' = EmptyUserData
               /\ db'.budgets = db.budgets ]_vars

\* the store refused a transaction earlier, and the budget commit that just
\* ran ended the flow without a budget
C11_BothCommitsFailed ==
    /\ db.seq.transaction > Cardinality(db.transactions)
    /\ last.op = "budget_period_handler"
    /\ last.data \in PeriodPresets
    /\ conv.budget = END
    /\ user_data = EmptyUserData
    /\ db.budgets = {}

(***************************************************************************)
(* C12: the kind of the category an entity references                      *)
(***************************************************************************)
\* C12: in every reachable state each Transaction references a Category of
\* the transaction's own kind, and each Budget references a Category of
\* kind expense.
C12_CategoryKindMatches ==
    /\ \A t \in db.transactions :
          \E c \in db.categories :
              c.id = t.category_id /\ c.transaction_type = t.transaction_type
    /\ \A b \in db.budgets :
          \E c \in db.categories :
              c.id = b.category_id /\ c.transaction_type = EXPENSE

\* one user has an income category and an expense category of the same
\* name, an income transaction in the first and a budget on the second
C12_SameNameBothKinds ==
    \E ci, ce \in db.categories :
        /\ ci.user_id = ce.user_id
        /\ ci.transaction_type = INCOME
        /\ ce.transaction_type = EXPENSE
        /\ Lower(ci.name) = Lower(ce.name)
        /\ \E t \in db.transactions : t.category_id = ci.id
        /\ \E b \in db.budgets : b.category_id = ce.id

(***************************************************************************)
(* C13: what one user's queries return                                     *)
(***************************************************************************)
\* everything the four queries return for one user row: the transactions,
\* the per-category sums of both kinds, the summary of the month read and
\* the budget status at both dates
UserView(d, user_id) ==
    [transactions |-> get_user_transactions(d, user_id, NoValue),
     sums         |-> [k \in TransactionType |->
                          get_transactions_sum_by_category(
                              d, user_id, MonthStart(BaseYear, 1), LastNow, k)],
     summary      |-> get_monthly_summary(d, user_id, YearOf(InitNow), MonthOf(InitNow)),
     budgets      |-> [at \in SvcDates |->
                          get_active_budgets_with_spending(d, user_id, at)]]

\* C13: a call made for one telegram id leaves what the four queries return
\* for every other user exactly as it was.
C13_OtherUsersViewUnchanged ==
    [][ \A u \in db.users :
            u.telegram_id # last'.tg => UserView(db', u.id) = UserView(db, u.id) ]_vars

\* the other user has just added a transaction in a category named as one
\* of the chat's user, who has transactions and a budget of its own
C13_BothUsersHaveData ==
    /\ last.op = "add_transaction"
    /\ last.tg = PeerId
    /\ \E u \in db.users :
          /\ u.telegram_id = ChatId
          /\ get_user_transactions(db, u.id, EXPENSE) # {}
          /\ get_active_budgets_with_spending(db, u.id, InitNow) # {}
    /\ \E t \in db.transactions : t.user_id = last.user_id

(***************************************************************************)
(* C14, C15, C16: rows that are absent, and what the chat is answered      *)
(***************************************************************************)
\* C14: no step of a flow fails because the user row or an expense category
\* is absent: an amount the budget flow accepts takes it to the category
\* step whatever the store holds, and a commit that ran to its end has
\* persisted its entity, the missing user and category being created.
C14_FlowsProvisionSilently ==
    [][ /\ (last'.op = "budget_amount_handler"
              /\ BudgetAmountVerdict(last'.name) = "accepted")
            => conv'.budget = BUDGET_CATEGORY
        /\ (last'.op \in TransactionCommits /\ ~last'.raised)
            => db'.transactions # db.transactions
        /\ (last'.op = "budget_period_handler" /\ last'.data \in PeriodPresets
              /\ ~BudgetPersistFails)
            => db'.budgets # db.budgets ]_vars

\* C15: every update a handler of the transaction flow or of the budget
\* flow takes is answered: the handler does not raise, and it sends or
\* edits a message.
C15_EveryStepAnswers ==
    [][ last'.flow # "app" => (~last'.raised /\ last'.replied) ]_vars

\* C16: when budget_amount_handler finds no user row, the budget flow ends
\* with an answer and neither the budget name nor the budget amount stays
\* in user_data.
C16_UserNotFoundDiscardsState ==
    [][ (/\ last'.op = "budget_amount_handler"
         /\ BudgetAmountVerdict(last'.name) = "accepted"
         /\ get_user_by_telegram_id(db, ChatId) = NoRow)
            => /\ conv'.budget = END
               /\ last'.replied
               /\ ~Has(user_data', "budget_name")
               /\ ~Has(user_data', "budget_amount") ]_vars

(***************************************************************************)
(* C17, C19: names typed at a step, and the custom period preset           *)
(***************************************************************************)
NameSteps == {"budget_name_handler", "category_handler", "budget_category_handler"}

NameInRange(text) ==
    /\ Len(Strip(text)) >= MinNameLen
    /\ Len(Strip(text)) <= MaxNameLen

\* C17: a name typed at the budget name step or at the free-text category
\* step of either flow is accepted, the flow moving on to its next step,
\* only if its length after trimming is between 2 and 100.
C17_NamesWithinBounds ==
    [][ (/\ last'.op \in NameSteps
         /\ last'.kind = "text"
         /\ ~last'.raised
         /\ last'.next \notin {BUDGET_NAME, WAITING_CATEGORY, BUDGET_CATEGORY})
            => NameInRange(last'.name) ]_vars

\* C19: the custom period preset creates no budget and keeps the flow in
\* the period step, with the collected values as they were, and answers.
C19_CustomPeriodStays ==
    [][ (last'.op = "budget_period_handler" /\ last'.data = "period_custom")
            => /\ conv.budget = BUDGET_PERIOD
               /\ conv'.budget = BUDGET_PERIOD
               /\ db' = db
               /\ user_data' = user_data
               /\ last'.replied /\ ~last'.raised ]_vars

\* the custom preset was just pressed with name, amount and category held
C19_CustomPressed ==
    /\ last.op = "budget_period_handler"
    /\ last.data = "period_custom"
    /\ conv.budget = BUDGET_PERIOD
    /\ Has(user_data, "budget_name")
    /\ Has(user_data, "budget_amount")
    /\ Has(user_data, "budget_category")

(***************************************************************************)
(* The period specification: the chat commits one expense, walks the       *)
(* budget flow to the period step and presses a preset, while the clock    *)
(* runs through every month of the following year                          *)
(***************************************************************************)
\* the last instant the clock reaches: the end of the year after BaseYear
LastTick == MonthStart(BaseYear + 2, 1) - 1

PeriodTyped(handler) ==
    CASE handler = "add_expense_handler" -> {BtnAddExpense}
      [] handler \in {"amount_handler", "budget_amount_handler"} -> {T150}
      [] handler \in {"category_handler", "budget_name_handler"} -> {TFood}
      [] OTHER -> {}

PeriodButtons == {"description_skip", "budget_create"} \cup PeriodPresets

\* the expense flow is entered while the store holds no transaction
PeriodType ==
    \E t \in {BtnAddExpense, T150, TFood} :
        /\ t \in PeriodTyped(Route(conv, TextUpdate(t)).handler)
        /\ t = BtnAddExpense => db.transactions = {}
        /\ Deliver(TextUpdate(t))

PeriodPress ==
    \/ \E b \in PeriodButtons : Deliver(CallbackUpdate(b, <<>>))
    \/ \E n \in OfferedBudgetCategories(db, ChatId) :
          Deliver(CallbackUpdate("budget_cat_", n))

\* datetime.now() moves on while the chat is at the period step of its
\* first budget
ClockTick ==
    /\ conv.budget = BUDGET_PERIOD
    /\ db.budgets = {}
    /\ now < LastTick
    /\ now' = now + 1
    /\ last' = [NoLast EXCEPT !.op = "tick"]
    /\ UNCHANGED <<db, conv, user_data, calls>>

PeriodNext == PeriodType \/ PeriodPress \/ ClockTick

PeriodSpec == Init /\ [][PeriodNext]_vars

\* the instants from start to end are exactly one calendar month
IsMonthWindow(start, end) ==
    /\ start % TicksPerMonth = 0
    /\ end = start + TicksPerMonth - 1

\* C18: at every date, the budget the "current month" preset creates runs
\* from the first instant of the month of now to its last instant, and the
\* one the "next month" preset creates covers the month that follows, in
\* the next year when now is in December and ending in December of the same
\* year when now is in November; start <= end in every case.
C18_PresetPeriods ==
    [][ \A b \in db'.budgets \ db.budgets :
          /\ b.start_date <= b.end_date
          /\ IsMonthWindow(b.start_date, b.end_date)
          /\ last'.data = "period_current_month"
                => (b.start_date <= now /\ now <= b.end_date)
          /\ last'.data = "period_next_month"
                => /\ now < b.start_date
                   /\ b.start_date - now <= TicksPerMonth
                   /\ YearOf(b.start_date)
                          = YearOf(now) + (IF MonthOf(now) = 12 THEN 1 ELSE 0)
                   /\ MonthOf(now) = 11
                          => (MonthOf(b.end_date) = 12
                              /\ YearOf(b.end_date) = YearOf(now)) ]_vars

\* the "next month" preset was pressed in December of the following year,
\* and the budget it created starts in the year after
C18_NextMonthInDecember ==
    /\ last.op = "budget_period_handler"
    /\ last.data = "period_next_month"
    /\ now > InitNow
    /\ MonthOf(now) = 12
    /\ \E b \in db.budgets :
          YearOf(b.start_date) = YearOf(now) + 1 /\ MonthOf(b.start_date) = 1

(***************************************************************************)
(* C20: the stored Budget.spent_amount                                     *)
(***************************************************************************)
\* the store with another value in every budget's spent_amount column
WithStoredSpent(d, value) ==
    [d EXCEPT !.budgets = {[b EXCEPT !.spent_amount = value] : b \in @}]

\* what budget status reports for one user, by budget id
ReportedStatus(d, user_id, at) ==
    {[id               |-> e.budget.id,
      spent_amount     |-> e.spent_amount,
      remaining_amount |-> e.remaining_amount,
      is_exceeded      |-> e.is_exceeded]
     : e \in get_active_budgets_with_spending(d, user_id, at)}

\* C20: no call changes the stored spent_amount of a budget that exists,
\* and the spent, remaining and exceeded values budget status reports are
\* the same whatever the stored spent_amount column holds.
C20_StoredSpentIsNotRead ==
    [][ /\ \A b \in db.budgets :
              \E b2 \in db'.budgets :
                  b2.id = b.id /\ b2.spent_amount = b.spent_amount
        /\ \A u \in db'.users : \A at \in SvcDates :
              ReportedStatus(WithStoredSpent(db', Num(9, 99)), u.id, at)
                  = ReportedStatus(db', u.id, at) ]_vars

\* the only transaction of the budget's category was added by the call that
\* just ran, after the budget was created: the budget's stored spent_amount
\* is still 0 while the status reports a spent amount
C20_StoredZeroReportedSpent ==
    /\ last.op = "add_transaction"
    /\ \E u \in db.users :
          \E e \in get_active_budgets_with_spending(db, u.id, InitNow) :
              /\ e.budget.spent_amount = NumZero
              /\ NumLt(NumZero, e.spent_amount)
              /\ last.category_id = e.budget.category_id
              /\ Cardinality({t \in db.transactions :
                                  t.category_id = e.budget.category_id}) = 1

(***************************************************************************)
(* The decimals specification: one chat runs the transaction flows and the *)
(* budget flow, interleaved, and types amounts with two or three decimals  *)
(***************************************************************************)
\* "0.004": a positive amount below half a hundredth
T0004 == <<"0", ".", "0", "0", "4">>

DecimalsTyped(handler) ==
    CASE handler \in AmountHandlers -> {T150, T0004}
      [] handler \in {"budget_name_handler", "category_handler"} -> {TFood}
      [] OTHER -> {}

DecimalsType ==
    \E t \in {T150, T0004, TFood} :
        /\ t \in DecimalsTyped(Route(conv, TextUpdate(t)).handler)
        /\ Deliver(TextUpdate(t))

DecimalsPress ==
    \/ \E b \in {"description_skip", "period_current_month"} :
           Deliver(CallbackUpdate(b, <<>>))
    \/ \E u \in CategoryButtons(db) : Deliver(u)

DecimalsNext == OpenFlow \/ DecimalsType \/ DecimalsPress

DecimalsSpec == Init /\ [][DecimalsNext]_vars

\* C21: in every reachable state every transaction the transaction flow
\* persisted has an amount greater than 0 and every budget the budget flow
\* persisted has a limit greater than 0, the two flows being interleaved in
\* one chat.
C21_PersistedAmountsPositive ==
    /\ \A t \in db.transactions : NumLt(NumZero, t.amount)
    /\ \A b \in db.budgets : NumLt(NumZero, b.amount)

(***************************************************************************)
(* The ranking specification: one user books expenses in three categories  *)
(* and an income, and reads the per-category sums and the top categories   *)
(***************************************************************************)
\* rows the ranking specification lets add_transaction persist
RankMaxRows == 3

RankNames == {<<"a">>, <<"b">>, <<"c">>}

\* the add_transaction calls: for the chat's user 0.20 or 0.30 in each
\* expense category and as income in the first, at the last instant of
\* December, and one expense at the first instant of January; one expense
\* for the other user
RankTransactions ==
    {[tg |-> ChatId, name |-> n, ttype |-> EXPENSE, amount |-> a, date |-> InitNow] :
        n \in RankNames, a \in {Dec(0, 20), Dec(0, 30)}}
    \cup {[tg |-> ChatId, name |-> <<"a">>, ttype |-> INCOME, amount |-> a,
           date |-> InitNow] : a \in {Dec(0, 20), Dec(0, 30)}}
    \cup {[tg |-> ChatId, name |-> <<"a">>, ttype |-> EXPENSE, amount |-> Dec(0, 30),
           date |-> LastNow],
          [tg |-> PeerId, name |-> <<"a">>, ttype |-> EXPENSE, amount |-> Dec(0, 30),
           date |-> InitNow]}

\* the limits passed to get_top_expense_categories
RankLimits == {0, 1, 2, TopLimit}

RankWindow == CurrentMonthPeriod(InitNow)

RankAddTransaction ==
    \E c \in RankTransactions :
      \E r \in {add_transaction(db, c.tg, c.amount, c.name, c.ttype, {}, c.date)} :
        /\ Cardinality(r.db.transactions) <= RankMaxRows
        /\ db' = r.db
        /\ last' = [NoLast EXCEPT !.op = "add_transaction", !.tg = c.tg,
                                  !.name = c.name, !.ttype = c.ttype,
                                  !.raised = r.raised]
        /\ UNCHANGED <<now, conv, user_data, calls>>

RankSumByCategory ==
    \E user \in db.users, ttype \in TransactionType :
      \E list \in order_by_desc_total(
                      get_transactions_sum_by_category(
                          db, user.id, RankWindow.start_date, RankWindow.end_date,
                          ttype)) :
        /\ last' = [NoLast EXCEPT !.op = "get_transactions_sum_by_category",
                                  !.tg = user.telegram_id, !.user_id = user.id,
                                  !.ttype = ttype, !.rows = list]
        /\ UNCHANGED <<db, now, conv, user_data, calls>>

RankTopExpenseCategories ==
    \E user \in db.users, limit \in RankLimits :
      \E list \in get_top_expense_categories(
                      db, user.id, RankWindow.start_date, RankWindow.end_date,
                      limit) :
        /\ last' = [NoLast EXCEPT !.op = "get_top_expense_categories",
                                  !.tg = user.telegram_id, !.user_id = user.id,
                                  !.ttype = EXPENSE, !.limit = limit,
                                  !.rows = list]
        /\ UNCHANGED <<db, now, conv, user_data, calls>>

\* get_monthly_summary read for December of BaseYear or the following January
RankMonthlySummary ==
    \E user \in db.users, at \in {InitNow, LastNow} :
        /\ last' = [NoLast EXCEPT !.op = "get_monthly_summary",
                                  !.tg = user.telegram_id, !.user_id = user.id,
                                  !.rows = <<get_monthly_summary(
                                               db, user.id, YearOf(at), MonthOf(at))>>]
        /\ UNCHANGED <<db, now, conv, user_data, calls>>

RankNext ==
    \/ RankAddTransaction
    \/ RankSumByCategory
    \/ RankTopExpenseCategories
    \/ RankMonthlySummary

RankSpec == Init /\ [][RankNext]_vars

\* the totals of a list never rise from one entry to the next
TotalsDescend(list) ==
    \A i, j \in 1..Len(list) :
        i < j => NumLe(list[j].total_amount, list[i].total_amount)

\* the list holds each entry of the set once and nothing else
ListsExactly(list, entries) ==
    /\ Len(list) = Cardinality(entries)
    /\ {list[i] : i \in 1..Len(list)} = entries

\* the categories of the user's transactions of a kind in the window, with
\* the sum of their amounts in hundredths
RankTotals(user_id, ttype) ==
    LET rows == {t \in db.transactions :
                    /\ t.user_id = user_id
                    /\ t.transaction_type = ttype
                    /\ t.transaction_date >= RankWindow.start_date
                    /\ t.transaction_date <= RankWindow.end_date}
    IN  {[category_id  |-> id,
          total_amount |-> FromCents(CentsSum({t \in rows : t.category_id = id}))] :
            id \in {t.category_id : t \in rows}}

RankView(list) ==
    [i \in 1..Len(list) |-> [category_id  |-> list[i].category_id,
                             total_amount |-> list[i].total_amount]]

\* C22: the list get_transactions_sum_by_category returns holds every
\* category that has a total, once, with totals never rising along the list,
\* so the highest total is first and categories with equal totals are all
\* there; the list get_top_expense_categories returns is, for limit n, the
\* first n entries (all of them when there are fewer) of such a list of the
\* expense categories: it is in descending order and no category left out
\* has a higher total than one that is in it.
C22_OrderedByTotal ==
    /\ last.op = "get_transactions_sum_by_category" =>
          /\ TotalsDescend(last.rows)
          /\ ListsExactly(RankView(last.rows), RankTotals(last.user_id, last.ttype))
    /\ last.op = "get_top_expense_categories" =>
          LET all == RankTotals(last.user_id, EXPENSE)
              top == {RankView(last.rows)[i] : i \in 1..Len(last.rows)}
          IN  /\ TotalsDescend(last.rows)
              /\ Len(last.rows) = IF last.limit < Cardinality(all)
                                  THEN last.limit ELSE Cardinality(all)
              /\ Cardinality(top) = Len(last.rows)
              /\ top \subseteq all
              /\ \A e \in top, f \in all \ top :
                     NumLe(f.total_amount, e.total_amount)

\* the top two of three expense categories were read, the two lower totals
\* being equal and an income being booked too
C22_TopTwoOfThreeWithTie ==
    /\ last.op = "get_top_expense_categories"
    /\ last.limit = 2
    /\ Len(last.rows) = 2
    /\ \E e, f, g \in RankTotals(last.user_id, EXPENSE) :
          /\ e.category_id # f.category_id
          /\ f.category_id # g.category_id
          /\ e.category_id # g.category_id
          /\ f.total_amount = g.total_amount
          /\ NumLt(f.total_amount, e.total_amount)
    /\ last.rows[1].total_amount # last.rows[2].total_amount

\* the user's transactions of a kind dated within the window
RankRows(user_id, ttype) ==
    {t \in db.transactions :
        /\ t.user_id = user_id
        /\ t.transaction_type = ttype
        /\ RankWindow.start_date <= t.transaction_date
        /\ t.transaction_date <= RankWindow.end_date}

\* C23: get_transactions_sum_by_category returns exactly one entry for each
\* category that has a transaction of the given user and kind dated within
\* [start_date, end_date]; its total_amount is the sum of those
\* transactions' amounts and its transaction_count their number, so that
\* transactions of another user, of the other kind or outside the dates add
\* nothing.
C23_SumByCategory ==
    last.op = "get_transactions_sum_by_category" =>
        LET rows == RankRows(last.user_id, last.ttype)
            ids  == {t.category_id : t \in rows}
            got  == {last.rows[i] : i \in 1..Len(last.rows)}
        IN  /\ Len(last.rows) = Cardinality(ids)
            /\ {e.category_id : e \in got} = ids
            /\ \A e \in got :
                  LET of == {t \in rows : t.category_id = e.category_id}
                  IN  /\ Cents(e.total_amount) = CentsSum(of)
                      /\ e.transaction_count = Cardinality(of)
                      /\ \E c \in db.categories :
                            c.id = e.category_id /\ c.name = e.category_name

\* the expense sums of the chat's user were read from a store that holds,
\* besides one of its December expenses, one of its expenses in the same
\* category dated January and an expense of the other user
C23_OthersContributeNothing ==
    /\ last.op = "get_transactions_sum_by_category"
    /\ last.tg = ChatId
    /\ last.ttype = EXPENSE
    /\ Len(last.rows) = 1
    /\ last.rows[1].transaction_count = 1
    /\ \E t \in db.transactions :
          t.user_id = last.user_id /\ t.transaction_date > RankWindow.end_date
    /\ \E t \in db.transactions : t.user_id # last.user_id

\* the user's transactions of a kind dated in the month: from its first
\* instant up to, not including, the first instant of the next month
MonthRows(user_id, ttype, year, month) ==
    {t \in db.transactions :
        /\ t.user_id = user_id
        /\ t.transaction_type = ttype
        /\ YearOf(t.transaction_date) = year
        /\ MonthOf(t.transaction_date) = month}

\* C24: get_monthly_summary returns as total_income and total_expenses the
\* sums of the user's INCOME and EXPENSE transaction amounts in the month's
\* window, 0 when there are none, and balance = total_income -
\* total_expenses.
C24_MonthlyTotals ==
    last.op = "get_monthly_summary" =>
        LET summary  == last.rows[1]
            income   == MonthRows(last.user_id, INCOME, summary.year, summary.month)
            expenses == MonthRows(last.user_id, EXPENSE, summary.year, summary.month)
        IN  /\ Cents(summary.total_income) = CentsSum(income)
            /\ Cents(summary.total_expenses) = CentsSum(expenses)
            /\ Cents(summary.balance) = CentsSum(income) - CentsSum(expenses)
            /\ income = {} => summary.total_income = NumZero
            /\ expenses = {} => summary.total_expenses = NumZero

\* the summary of a month was read in which the user has an income and a
\* larger expense, the user having an expense in another month too
C24_IncomeBelowExpenses ==
    /\ last.op = "get_monthly_summary"
    /\ NumLt(NumZero, last.rows[1].total_income)
    /\ NumLt(last.rows[1].total_income, last.rows[1].total_expenses)
    /\ \E t \in db.transactions :
          /\ t.user_id = last.user_id
          /\ MonthOf(t.transaction_date) # last.rows[1].month

\* C25: a persisted transaction is never modified or removed: no call of
\* start_command, add_transaction, create_budget or get_monthly_statistics
\* takes a row out of the transactions or changes a field of one, so the set
\* of transactions only grows.
C25_TransactionsImmutable == [][db.transactions \subseteq db'.transactions]_vars

\* a budget was created, and a third row added, in a store that holds two
\* transactions of one category
C25_BudgetAfterTransactions ==
    /\ last.op = "create_budget"
    /\ ~last.raised
    /\ db.budgets # {}
    /\ \E t, u \in db.transactions :
          t.id # u.id /\ t.category_id = u.category_id /\ t.category_id = last.category_id

(***************************************************************************)
(* The store specification: rows inserted through the services, inserts    *)
(* that reference a row that does not exist, as the model tests make them, *)
(* and users and categories deleted through the session                    *)
(***************************************************************************)
\* the highest id the store specification lets a sequence reach
StoreMaxIds == 2

\* the id of no row
NoSuchId == 999

StoreNames == {<<"a">>, <<"b">>}

StoreWindow == CurrentMonthPeriod(InitNow)

StoreWithinBounds(d) == \A k \in DOMAIN d.seq : d.seq[k] <= StoreMaxIds

\* how many rows of each table a step took out of the store
Deleted(d, e) ==
    <<[categories   |-> Cardinality(d.categories \ e.categories),
       transactions |-> Cardinality(d.transactions \ e.transactions),
       budgets      |-> Cardinality(d.budgets \ e.budgets),
       reports      |-> Cardinality(d.reports \ e.reports)]>>

StoreStep(op, r, user_id, category_id) ==
    /\ StoreWithinBounds(r.db)
    /\ db' = r.db
    /\ last' = [NoLast EXCEPT !.op = op, !.raised = r.raised,
                              !.user_id = user_id, !.category_id = category_id,
                              !.rows = Deleted(db, r.db)]
    /\ UNCHANGED <<now, conv, user_data, calls>>

StoreAddTransaction ==
    \E tg \in TelegramIds, name \in StoreNames :
        StoreStep("add_transaction",
                  add_transaction(db, tg, Dec(0, 30), name, EXPENSE, {}, InitNow),
                  0, 0)

StoreCreateBudget ==
    \E tg \in TelegramIds, name \in StoreNames :
        StoreStep("create_budget",
                  BudgetService_create_budget(db, tg, SvcBudgetName, Dec(0, 50), name,
                                              StoreWindow.start_date,
                                              StoreWindow.end_date),
                  0, 0)

\* ReportService.generate_monthly_report with save_report: the report is
\* saved for the user row of the telegram id; without one the call raises
StoreSaveReport ==
    \E tg \in TelegramIds :
      \E user \in {get_user_by_telegram_id(db, tg)} :
        StoreStep("generate_monthly_report",
                  IF user = NoRow THEN Raised(db)
                  ELSE create_report(db, user.id, StoreWindow.start_date,
                                     StoreWindow.end_date),
                  user.id, 0)

\* an insert made with the id of a user or of a category that does not exist
StoreInsertDangling ==
    \/ \E name \in StoreNames :
           StoreStep("create_category",
                     create_category(db, name, NoSuchId, EXPENSE), NoSuchId, 0)
    \/ \E uid \in {u.id : u \in db.users} \cup {NoSuchId},
          cid \in {c.id : c \in db.categories} \cup {NoSuchId} :
           /\ uid = NoSuchId \/ cid = NoSuchId
           /\ \/ StoreStep("create_transaction",
                           create_transaction(db, Dec(0, 30), uid, cid, EXPENSE, {},
                                              InitNow), uid, cid)
              \/ StoreStep("create_budget_row",
                           BudgetQueries_create_budget(
                               db, SvcBudgetName, Dec(0, 50), uid, cid,
                               StoreWindow.start_date, StoreWindow.end_date),
                           uid, cid)
    \/ StoreStep("create_report",
                 create_report(db, NoSuchId, StoreWindow.start_date,
                               StoreWindow.end_date), NoSuchId, 0)

StoreDeleteUser ==
    \E user \in db.users :
        StoreStep("delete_user", Done(delete_user(db, user), NoRow), user.id, 0)

StoreDeleteCategory ==
    \E category \in db.categories :
        StoreStep("delete_category", Done(delete_category(db, category), NoRow),
                  category.user_id, category.id)

StoreNext ==
    \/ StoreAddTransaction
    \/ StoreCreateBudget
    \/ StoreSaveReport
    \/ StoreInsertDangling
    \/ StoreDeleteUser
    \/ StoreDeleteCategory

StoreSpec == Init /\ [][StoreNext]_vars

\* C26: deleting a user deletes the user's categories, transactions,
\* budgets and reports, and deleting a category deletes the transactions and
\* budgets of that category; the rows of other users, and for a category
\* the rows of other categories, are left unchanged.
C26_CascadeDeletes ==
    [][/\ last'.op = "delete_user" =>
            /\ db'.users = {u \in db.users : u.id # last'.user_id}
            /\ db'.categories = {c \in db.categories : c.user_id # last'.user_id}
            /\ db'.transactions = {t \in db.transactions : t.user_id # last'.user_id}
            /\ db'.budgets = {b \in db.budgets : b.user_id # last'.user_id}
            /\ db'.reports = {r \in db.reports : r.user_id # last'.user_id}
            /\ \A x \in db'.transactions \cup db'.budgets :
                   \E c \in db'.categories : c.id = x.category_id
       /\ last'.op = "delete_category" =>
            /\ db'.users = db.users
            /\ db'.reports = db.reports
            /\ db'.categories = {c \in db.categories : c.id # last'.category_id}
            /\ db'.transactions =
                   {t \in db.transactions : t.category_id # last'.category_id}
            /\ db'.budgets = {b \in db.budgets : b.category_id # last'.category_id}
      ]_vars

\* a user that had a category, a transaction, a budget and a report was
\* deleted, and the other user's category and transaction are in the store
C26_UserWithAllRowsDeleted ==
    /\ last.op = "delete_user"
    /\ last.rows[1].categories > 0
    /\ last.rows[1].transactions > 0
    /\ last.rows[1].budgets > 0
    /\ last.rows[1].reports > 0
    /\ db.categories # {}
    /\ db.transactions # {}

\* every owner and category reference of the store names a row
References(d) ==
    /\ \A x \in d.categories \cup d.transactions \cup d.budgets \cup d.reports :
           \E u \in d.users : u.id = x.user_id
    /\ \A x \in d.transactions \cup d.budgets :
           \E c \in d.categories : c.id = x.category_id

\* the rows of the five tables
Rows(d) == <<d.users, d.categories, d.transactions, d.budgets, d.reports>>

\* C27: after every insert and delete each category, transaction, budget and
\* report references an existing user and each transaction and budget an
\* existing category; an insert that references a user or a category that
\* does not exist raises an integrity error and adds no row.
C27_ReferencesExist ==
    [][/\ References(db')
       /\ last'.op \in {"create_category", "create_transaction",
                        "create_budget_row", "create_report"}
            => last'.raised /\ Rows(db') = Rows(db)
      ]_vars

\* a transaction of an existing user in a category that does not exist was
\* refused while the store holds that user's transaction and budget
C27_DanglingCategoryRefused ==
    /\ last.op = "create_transaction"
    /\ last.raised
    /\ last.category_id = NoSuchId
    /\ \E t \in db.transactions : t.user_id = last.user_id
    /\ \E b \in db.budgets : b.user_id = last.user_id

(***************************************************************************)
(* The sessions specification: two sessions call add_transaction or        *)
(* create_budget for the same telegram id at the same time.  A call is a   *)
(* sequence of store calls, each committed on its own; between two of them *)
(* the other session may run, and the process may stop.                    *)
(***************************************************************************)
\* the calls: either service, the category name in either casing, and an
\* amount the store keeps or one it refuses
CallArguments ==
    {[op |-> op, name |-> n, amount |-> a] :
        op \in {"add_transaction", "create_budget"},
        n \in {TFood, TFOOD},
        a \in {Dec(0, 30), Decimal(TInf)}}

SessionStep(s, step, call, d, raised) ==
    /\ calls' = [calls EXCEPT ![s] = call]
    /\ db' = d
    /\ last' = [NoLast EXCEPT !.op = step, !.tg = ChatId, !.raised = raised,
                              !.name = call.name, !.user_id = call.user.id,
                              !.category_id = call.category.id]
    /\ UNCHANGED <<now, conv, user_data>>

BeginCall(s) ==
    /\ calls[s].pc = "idle"
    /\ \E c \in CallArguments :
           SessionStep(s, "begin",
                       [calls[s] EXCEPT !.pc = "get_user", !.op = c.op,
                                        !.name = c.name, !.amount = c.amount],
                       db, FALSE)

\* user = UserQueries.get_user_by_telegram_id(...); if not user: ...
GetUser(s) ==
    /\ calls[s].pc = "get_user"
    /\ \E user \in {get_user_by_telegram_id(db, ChatId)} :
           SessionStep(s, "get_user_by_telegram_id",
                       [calls[s] EXCEPT !.user = user,
                                        !.pc = IF user = NoRow THEN "create_user"
                                               ELSE "get_user_categories"],
                       db, FALSE)

\* user = UserQueries.create_user(...): the IntegrityError of the unique
\* telegram_id is not caught and ends the call
CreateUser(s) ==
    /\ calls[s].pc = "create_user"
    /\ \E r \in {create_user(db, ChatId)} :
           SessionStep(s, "create_user",
                       IF r.raised
                       THEN [calls[s] EXCEPT !.pc = "failed", !.at = "create_user"]
                       ELSE [calls[s] EXCEPT !.pc = "get_user_categories",
                                             !.user = r.row],
                       r.db, r.raised)

\* categories = CategoryQueries.get_user_categories(...) and the loop over
\* them
GetUserCategories(s) ==
    /\ calls[s].pc = "get_user_categories"
    /\ \E category \in {MatchCategory(get_user_categories(db, calls[s].user.id, EXPENSE),
                                      calls[s].name)} :
           SessionStep(s, "get_user_categories",
                       [calls[s] EXCEPT !.category = category,
                                        !.pc = IF category = NoRow
                                               THEN "create_category"
                                               ELSE "create_entity"],
                       db, FALSE)

\* category = CategoryQueries.create_category(...)
CreateCategory(s) ==
    /\ calls[s].pc = "create_category"
    /\ \E r \in {create_category(db, calls[s].name, calls[s].user.id, EXPENSE)} :
           SessionStep(s, "create_category",
                       IF r.raised
                       THEN [calls[s] EXCEPT !.pc = "failed", !.at = "create_category"]
                       ELSE [calls[s] EXCEPT !.pc = "create_entity",
                                             !.category = r.row, !.created = TRUE],
                       r.db, r.raised)

InsertEntity_rolls_back(d, call) ==
    LET r == IF call.op = "add_transaction"
             THEN create_transaction(d, call.amount, call.user.id, call.category.id,
                                     EXPENSE, {}, InitNow)
             ELSE BudgetQueries_create_budget(
                      d, SvcBudgetName, call.amount, call.user.id, call.category.id,
                      CurrentMonthPeriod(InitNow).start_date,
                      CurrentMonthPeriod(InitNow).end_date)
    IN  IF r.raised /\ call.created
        THEN [r EXCEPT !.db.categories = @ \ {call.category}]
        ELSE r

\* the insert that ends the call: TransactionQueries.create_transaction or
\* BudgetQueries.create_budget
InsertEntity(d, call) ==
    IF call.op = "add_transaction"
    THEN create_transaction(d, call.amount, call.user.id, call.category.id,
                            EXPENSE, {}, InitNow)
    ELSE BudgetQueries_create_budget(
             d, SvcBudgetName, call.amount, call.user.id, call.category.id,
             CurrentMonthPeriod(InitNow).start_date,
             CurrentMonthPeriod(InitNow).end_date)

CreateEntity(s) ==
    /\ calls[s].pc = "create_entity"
    /\ \E r \in {InsertEntity(db, calls[s])} :
           SessionStep(s, "create_entity",
                       [calls[s] EXCEPT !.pc = IF r.raised THEN "failed" ELSE "done",
                                        !.at = "create_entity"],
                       r.db, r.raised)

\* the process stops between two store calls; what was committed stays
Crash(s) ==
    /\ calls[s].pc \in {"create_user", "get_user_categories", "create_category",
                        "create_entity"}
    /\ SessionStep(s, "crash",
                   [calls[s] EXCEPT !.pc = "crashed", !.at = calls[s].pc], db, FALSE)

SessionsNext ==
    \E s \in Sessions :
        \/ BeginCall(s)
        \/ GetUser(s)
        \/ CreateUser(s)
        \/ GetUserCategories(s)
        \/ CreateCategory(s)
        \/ CreateEntity(s)
        \/ Crash(s)

SessionsSpec == Init /\ [][SessionsNext]_vars

\* C28: category resolution is a lookup followed by an insert, with no lock
\* and no uniqueness constraint between them: a call that found no category
\* of the name inserts a new row, whatever the other session inserted since
\* the lookup, and a call that found one inserts nothing.  Two calls for the
\* same user and kind and a new name can therefore both insert.
C28_CheckThenInsert ==
    [][\A s \in Sessions :
          /\ calls[s].pc = "create_category" /\ calls'[s].pc \notin {"create_category", "crashed"}
               => /\ calls'[s].pc = "create_entity"
                  /\ calls'[s].category \notin db.categories
                  /\ db'.categories = db.categories \cup {calls'[s].category}
          /\ calls[s].pc = "get_user_categories" /\ calls'[s].pc = "create_entity"
               => /\ calls'[s].category \in db.categories
                  /\ db'.categories = db.categories
      ]_vars

\* both sessions inserted a category: the user has two categories of the
\* kind whose names are equal ignoring case
C28_TwoRowsForOneName ==
    /\ \A s \in Sessions : calls[s].created
    /\ \E c1, c2 \in db.categories :
          /\ c1.id # c2.id
          /\ c1.user_id = c2.user_id
          /\ c1.transaction_type = c2.transaction_type
          /\ Lower(c1.name) = Lower(c2.name)
          /\ c1.name # c2.name

\* C29: a call of add_transaction or create_budget never fails at the user
\* resolution step, under any interleaving of calls for the same telegram
\* id: it gets the existing user row or the one it creates.
C29_UserResolutionNeverFails ==
    \A s \in Sessions : ~(calls[s].pc = "failed" /\ calls[s].at = "create_user")

\* C30: the three commits of a call are not one transaction: when a call
\* that inserted its category stops before its entity is inserted, by a
\* crash or by the entity insert failing, the category row stays in the
\* store, and no later step takes a category out.
C30_CategoryOutlivesFailedCall ==
    [][/\ db.categories \subseteq db'.categories
       /\ \A s \in Sessions :
             calls'[s].created /\ calls'[s].pc \in {"failed", "crashed"}
                 => calls'[s].category \in db'.categories
      ]_vars

\* both calls have stopped, one by a refused entity insert and one by a
\* crash, and the store holds a category with no transaction and no budget
C30_OrphanCategory ==
    /\ \E s \in Sessions : calls[s].pc = "failed" /\ calls[s].at = "create_entity"
                           /\ calls[s].created
    /\ \E s \in Sessions : calls[s].pc = "crashed"
    /\ \E c \in db.categories :
          /\ ~\E t \in db.transactions : t.category_id = c.id
          /\ ~\E b \in db.budgets : b.category_id = c.id

(***************************************************************************)
(* Properties of the chat across its three conversations                   *)
(***************************************************************************)
\* C31: at most one of the income, expense and budget flows of the chat is
\* in a non-terminal step at any time, and a step of one flow never clears
\* or overwrites a value another flow in progress has collected.
C31_OneFlowAtATime ==
    [][/\ Cardinality({f \in DOMAIN conv' : conv'[f] # END}) <= 1
       /\ \A f \in {"income", "expense"} :
             conv[f] # END /\ last'.flow = "budget" =>
                 \A k \in {"transaction_type", "amount", "category_name"} :
                     user_data'[k] = user_data[k]
      ]_vars


\* the active categories of a kind that the store holds for the user row of
\* a Telegram user
OwnCategories(d, telegram_id, transaction_type) ==
    LET db_user == get_user_by_telegram_id(d, telegram_id)
    IN  IF db_user = NoRow THEN {}
        ELSE {cat.name : cat \in get_user_categories(d, db_user.id, transaction_type)}

\* C32: the categories offered when the amount step of the transaction flow
\* succeeds are exactly the requesting user's own active categories of the
\* chosen kind.
C32_OwnCategoriesOffered ==
    last.op = "amount_handler" /\ last.next = WAITING_CATEGORY /\ ~last.raised =>
        OfferedCategories(db, last.tg, Get(user_data, "transaction_type"))
            = OwnCategories(db, last.tg, Get(user_data, "transaction_type"))

(***************************************************************************)
(* The menu specification: the chat opens the expense flow and the budget  *)
(* flow and, at every step, types a value or the text of a menu button     *)
(***************************************************************************)
MenuTexts == {BtnAddExpense, BtnReports, T150, TFood}

MenuButtons == {"budget_create", "budget_cat_", "period_current_month"}

MenuType == \E t \in MenuTexts : Deliver(TextUpdate(t))

MenuPress ==
    \E b \in MenuButtons :
        Deliver(CallbackUpdate(b, IF b = "budget_cat_" THEN TFood ELSE <<>>))

MenuNext == MenuType \/ MenuPress

MenuSpec == Init /\ [][MenuNext]_vars

\* the button texts listed in the fallbacks of a conversation
FallbackButtons(flow) ==
    CASE flow = "income" -> IncomeFallbackButtons
      [] flow = "expense" -> ExpenseFallbackButtons
      [] flow = "budget" -> BudgetFallbackButtons

\* C33: while a flow is in a non-terminal step, a text that is one of the
\* main-menu buttons listed in its fallbacks ends the flow and clears the
\* collected values; it is never stored as the value of the step.
C33_MenuButtonCancels ==
    [][\A flow \in DOMAIN conv :
          conv[flow] # END /\ last'.kind = "text"
              /\ last'.name \in FallbackButtons(flow) =>
                  /\ conv'[flow] = END
                  /\ user_data' = EmptyUserData
                  /\ db' = db
      ]_vars

(***************************************************************************)
(* The repeat specification: the chat walks the expense flow and the       *)
(* budget flow more than once and sends the last event of a flow again     *)
(***************************************************************************)
\* rows the repeat specification lets the two flows persist together
RepeatMaxRows == 2

RepeatTexts == {BtnAddExpense, T150, TFood}

RepeatButtons == {"description_skip", "budget_create", "budget_cat_", "period_current_month"}

RepeatDeliver(update) ==
    \E rt \in {Route(conv, update)} :
      /\ rt.handler # NoHandler
      /\ \E r \in {Run(rt.handler, db, user_data, ChatId, update, now)} :
           /\ Cardinality(r.db.transactions) + Cardinality(r.db.budgets) <= RepeatMaxRows
           /\ db' = r.db
           /\ user_data' = r.ud
           /\ conv' = IF rt.flow # "app" /\ ~r.raised /\ r.next # Stay
                      THEN [conv EXCEPT ![rt.flow] = r.next]
                      ELSE conv
           /\ last' = [NoLast EXCEPT !.op = rt.handler, !.flow = rt.flow,
                                     !.kind = update.kind,
                                     !.data = update.data,
                                     !.name = IF IsText(update) THEN update.text
                                              ELSE update.arg,
                                     !.next = r.next, !.raised = r.raised,
                                     !.replied = r.replied, !.tg = ChatId]
           /\ UNCHANGED <<now, calls>>

RepeatType == \E t \in RepeatTexts : RepeatDeliver(TextUpdate(t))

RepeatPress ==
    \E b \in RepeatButtons :
        RepeatDeliver(CallbackUpdate(b, IF b = "budget_cat_" THEN TFood ELSE <<>>))

RepeatNext == RepeatType \/ RepeatPress

RepeatSpec == Init /\ [][RepeatNext]_vars

\* the handlers that end a pass through a flow, and the step they end
FinalHandlers == {"description_handler", "description_skip_handler", "budget_period_handler"}

FinalStep(flow) == IF flow = "budget" THEN BUDGET_PERIOD ELSE WAITING_DESCRIPTION

RowCount(d) == Cardinality(d.transactions) + Cardinality(d.budgets)

\* C34: a step persists a transaction or a budget only as the last step of
\* a flow, persists exactly one, and ends the flow with its values cleared;
\* the last event of a flow sent again after the commit persists nothing.
C34_OneEntityPerPass ==
    [][/\ RowCount(db') # RowCount(db) =>
              /\ last'.op \in FinalHandlers
              /\ conv[last'.flow] = FinalStep(last'.flow)
              /\ RowCount(db') = RowCount(db) + 1
              /\ db.transactions \subseteq db'.transactions
              /\ db.budgets \subseteq db'.budgets
              /\ conv'[last'.flow] = END
              /\ user_data' = EmptyUserData
       /\ last.op \in FinalHandlers /\ last.next = END /\ ~last.raised
              /\ (last'.kind = "text" => last'.name = TFood)
              /\ (last'.kind = "callback" =>
                      last'.data \in {"description_skip", "period_current_month"}) =>
              RowCount(db') = RowCount(db)
      ]_vars

\* a transaction was committed, the description was typed again and went to
\* the main menu: no second transaction although the store had room for it
C34_DescriptionRepeated ==
    /\ last.op = "handle_main_menu"
    /\ last.name = TFood
    /\ Cardinality(db.transactions) = 1
    /\ db.budgets = {}
    /\ \A flow \in DOMAIN conv : conv[flow] = END

(***************************************************************************)
(* Properties of the reads (SvcSpec)                                       *)
(***************************************************************************)
\* C35: for the same user and month, get_monthly_statistics and
\* get_monthly_summary give the same total income, the same total expenses
\* and the same balance, whatever the dates of the transactions.
C35_StatisticsEqualSummary ==
    \A tg \in TelegramIds, t \in SvcDates :
      LET user    == get_user_by_telegram_id(db, tg)
          stats   == get_monthly_statistics(db, tg, YearOf(t), MonthOf(t)).stats
          summary == get_monthly_summary(db, user.id, YearOf(t), MonthOf(t))
      IN  user # NoRow =>
            /\ stats.total_income = summary.total_income
            /\ stats.total_expense = summary.total_expenses
            /\ stats.balance = summary.balance

(***************************************************************************)
(* Reads of the transaction list (queries.py, report_service.py)           *)
(***************************************************************************)
RECURSIVE KSubsets(_, _)
\* the subsets of k rows of a set of rows
KSubsets(rows, k) ==
    IF k = 0 THEN {{}}
    ELSE UNION {{s \cup {r} : r \in rows \ s} : s \in KSubsets(rows, k - 1)}

\* the ways of keeping n rows of a set of rows
ChooseOf(rows, n) ==
    IF n >= Cardinality(rows) THEN {rows}
    ELSE IF 2 * n > Cardinality(rows)
    THEN {rows \ s : s \in KSubsets(rows, Cardinality(rows) - n)}
    ELSE KSubsets(rows, n)

RECURSIVE order_by_desc_date_limit(_, _)
\* order_by(desc(transaction_date)).limit(limit): the rows kept, as a set;
\* rows of one date come in any order, so every possible result is listed
order_by_desc_date_limit(rows, limit) ==
    IF limit = 0 \/ rows = {} THEN {{}}
    ELSE LET newest == {r \in rows :
                           \A x \in rows : x.transaction_date <= r.transaction_date}
         IN  IF Cardinality(newest) >= limit THEN ChooseOf(newest, limit)
             ELSE {newest \cup s :
                      s \in order_by_desc_date_limit(rows \ newest,
                                                     limit - Cardinality(newest))}

\* TransactionQueries.get_user_transactions with its filters (offset is 0 in
\* every call): transaction_type may be NoValue, category_id 0 or None is no
\* filter, start_date and end_date are {} (None) or {date}
TransactionQueries_get_user_transactions(d, user_id, limit, transaction_type, category_id, start_date, end_date) ==
    order_by_desc_date_limit(
        {t \in d.transactions :
            /\ t.user_id = user_id
            /\ (transaction_type # NoValue => t.transaction_type = transaction_type)
            /\ (category_id # 0 => t.category_id = category_id)
            /\ \A s \in start_date : t.transaction_date >= s
            /\ \A e \in end_date : t.transaction_date <= e},
        limit)

\* the window and the LIMIT of generate_weekly_report; the weekly
\* specification counts the clock in days
DaysPerWeek == 7

WeeklyLimit == 100

\* Decimal('0') with the amount of every row of a set added to it (a bag
\* holds each row as many times as its amount has hundredths)
AddAmounts(rows) ==
    FromCents(BagCardinality([t \in {x \in rows : Cents(x.amount) > 0} |->
                                 Cents(t.amount)]))

\* generate_weekly_report: the statistics of each day of the rows read
daily_stats(transactions) ==
    [date_key \in {t.transaction_date : t \in transactions} |->
        LET of == {t \in transactions : t.transaction_date = date_key}
        IN  [income  |-> AddAmounts({t \in of : t.transaction_type = INCOME}),
             expense |-> AddAmounts({t \in of : t.transaction_type # INCOME}),
             transactions_count |-> Cardinality(of)]]

RECURSIVE format_weekly_report(_)
\* ReportService._format_weekly_report: the totals of the message
format_weekly_report(stats) ==
    IF DOMAIN stats = {}
    THEN [total_income |-> NumZero, total_expense |-> NumZero, total_transactions |-> 0]
    ELSE LET date_key == CHOOSE k \in DOMAIN stats : TRUE
             rest     == format_weekly_report(
                             [k \in DOMAIN stats \ {date_key} |-> stats[k]])
         IN  [total_income  |-> NumAdd(stats[date_key].income, rest.total_income),
              total_expense |-> NumAdd(stats[date_key].expense, rest.total_expense),
              total_transactions |->
                  stats[date_key].transactions_count + rest.total_transactions]

\* ReportService.generate_weekly_report: every outcome the read allows
generate_weekly_report(d, telegram_id, current) ==
    LET user       == get_user_by_telegram_id(d, telegram_id)
        end_date   == current
        start_date == end_date - DaysPerWeek
    IN  IF user = NoRow
        THEN {[db |-> d, raised |-> TRUE, totals |-> format_weekly_report(<<>>)]}
        ELSE {LET report == create_report(d, user.id, start_date, end_date)
              IN  [db |-> report.db, raised |-> report.raised,
                   totals |-> format_weekly_report(daily_stats(transactions))] :
                 transactions \in TransactionQueries_get_user_transactions(
                                      d, user.id, WeeklyLimit, NoValue, 0,
                                      {start_date}, {end_date})}

(***************************************************************************)
(* The list of transactions by category (transaction_service.py)           *)
(***************************************************************************)
\* TransactionService.get_user_transactions: every outcome the reads allow
\* (the first category whose lowered name matches is the one used, in the
\* order the store returns the categories); no user gives the empty list,
\* no matching category leaves category_id None
TransactionService_get_user_transactions(d, telegram_id, limit, transaction_type, category_name) ==
    LET user    == get_user_by_telegram_id(d, telegram_id)
        matches == {cat \in get_user_categories(d, user.id, NoValue) :
                       Lower(cat.name) = Lower(category_name)}
        ids     == IF category_name = <<>> \/ matches = {} THEN {0}
                   ELSE {cat.id : cat \in matches}
    IN  IF user = NoRow THEN {{}}
        ELSE UNION {TransactionQueries_get_user_transactions(
                        d, user.id, limit, transaction_type, category_id, {}, {}) :
                    category_id \in ids}

\* the limit view_transactions_handler passes
ListLimit == 10

\* rows the store holds at most when the list is read
ListMaxRows == 4

\* category names the list is asked for: the user's, in capitals, and one
\* the user never used
ListNames == {TFOOD, TOther}

WeeklyListTransactions ==
    /\ db.seq.transaction <= ListMaxRows
    /\ \E name \in ListNames :
         \E rows \in TransactionService_get_user_transactions(
                         db, ChatId, ListLimit, NoValue, name) :
           /\ last' = [NoLast EXCEPT !.op = "get_user_transactions", !.tg = ChatId,
                                     !.name = name, !.limit = ListLimit,
                                     !.rows = <<rows>>]
           /\ UNCHANGED <<db, now, conv, user_data, calls>>

(***************************************************************************)
(* The weekly specification: the chat's user records one transaction after *)
(* another, lists them by category and asks for the weekly report          *)
(***************************************************************************)
\* transactions the weekly specification lets the user record
WeeklyMaxRows == 102

\* the n-th transaction recorded: 0.01, an expense when n is odd and an
\* income when it is even; the first is dated the day before the window,
\* the second on the first day of the window, the others today
WeeklyEntry(n) ==
    [amount |-> Dec(0, 1),
     ttype  |-> IF n % 2 = 0 THEN INCOME ELSE EXPENSE,
     date   |-> IF n = 1 THEN InitNow - DaysPerWeek - 1
                ELSE IF n = 2 THEN InitNow - DaysPerWeek
                ELSE InitNow]

WeeklyAddTransaction ==
    /\ db.seq.transaction < WeeklyMaxRows
    /\ \E c \in {WeeklyEntry(db.seq.transaction + 1)} :
         \E r \in {add_transaction(db, ChatId, c.amount, TFood, c.ttype, {}, c.date)} :
           /\ db' = r.db
           /\ last' = [NoLast EXCEPT !.op = "add_transaction", !.tg = ChatId,
                                     !.ttype = c.ttype, !.raised = r.raised]
           /\ UNCHANGED <<now, conv, user_data, calls>>

\* one report is asked for, at any time
WeeklyReport ==
    /\ db.reports = {}
    /\ \E r \in generate_weekly_report(db, ChatId, now) :
           /\ db' = r.db
           /\ last' = [NoLast EXCEPT !.op = "generate_weekly_report", !.tg = ChatId,
                                     !.raised = r.raised, !.rows = <<r.totals>>]
           /\ UNCHANGED <<now, conv, user_data, calls>>

WeeklyNext == WeeklyAddTransaction \/ WeeklyReport \/ WeeklyListTransactions

WeeklySpec == Init /\ [][WeeklyNext]_vars

\* the user's transactions dated within the seven days up to now
LastWeek(d, telegram_id, current) ==
    {t \in d.transactions :
        /\ t.user_id = get_user_by_telegram_id(d, telegram_id).id
        /\ current - DaysPerWeek <= t.transaction_date
        /\ t.transaction_date <= current}

\* C36: the totals of the weekly report are the sums over all of the user's
\* transactions of the last seven days, however many there are.
C36_WeeklyTotals ==
    last.op = "generate_weekly_report" /\ ~last.raised =>
        LET rows == LastWeek(db, last.tg, now)
        IN  last.rows[1] =
                [total_income  |-> AddAmounts({t \in rows : t.transaction_type = INCOME}),
                 total_expense |-> AddAmounts({t \in rows : t.transaction_type = EXPENSE}),
                 total_transactions |-> Cardinality(rows)]

\* C37: get_user_transactions called with a category name returns only
\* transactions of the user's categories of that name, compared in lower
\* case, and nothing when the user has no category of that name.
C37_ListByCategory ==
    last.op = "get_user_transactions" =>
        LET user == get_user_by_telegram_id(db, last.tg)
            cats == {cat \in db.categories :
                        /\ cat.user_id = user.id
                        /\ Lower(cat.name) = Lower(last.name)}
        IN  /\ \A t \in last.rows[1] :
                  /\ t.user_id = user.id
                  /\ \E cat \in cats : t.category_id = cat.id
            /\ (cats = {} => last.rows[1] = {})

(***************************************************************************)
(* Ownership of the rows the services persist (SvcSpec)                    *)
(***************************************************************************)
\* the category a transaction or a budget row refers to
CategoryOf(d, row) == {c \in d.categories : c.id = row.category_id}

\* C38: every transaction and every budget persisted by add_transaction or
\* create_budget refers to a category owned by the user that owns the row,
\* whatever calls the users have made.
C38_CategoryOfSameUser ==
    \A row \in db.transactions \cup db.budgets :
        /\ CategoryOf(db, row) # {}
        /\ \A c \in CategoryOf(db, row) : c.user_id = row.user_id

\* both users recorded an expense under the same category name, each in a
\* category of its own
C38_TwoUsersOneName ==
    \E t1, t2 \in db.transactions :
        /\ t1.user_id # t2.user_id
        /\ t1.category_id # t2.category_id
        /\ \E c1 \in CategoryOf(db, t1), c2 \in CategoryOf(db, t2) :
              /\ c1.name = c2.name
              /\ c1.transaction_type = c2.transaction_type
        /\ \E b \in db.budgets : b.user_id \in {t1.user_id, t2.user_id}

====
